---- MODULE Spec2Model ----
(***************************************************************************)
(* AgentEval: the agent control loop (runAgent), the tool catalog          *)
(* (executeTool and the four tools) and the trace evaluator                *)
(* (evaluateTrace and its five checks), modelled from src/src/evaluate.ts, *)
(* src/src/tools.ts and the configuration / model-gateway module.          *)
(***************************************************************************)
EXTENDS Integers, Sequences, FiniteSets, TLC

VARIABLES
  pc,                   \* position of main(): inside runAgent, or after it
  stepCount,            \* runAgent: let stepCount
  finalReportReceived,  \* runAgent: let finalReportReceived
  trace,                \* runAgent: const trace: TraceStep[]
  messages,             \* runAgent: const messages: Message[]
  batch,                \* message.tool_calls of the reply being processed
  idx,                  \* position of the for-of loop in batch (1-based)
  pending,              \* asynchronous operations awaited and not yet settled
  llmCalls,             \* number of runLLM invocations so far
  toolsSent,            \* the tools argument of each runLLM invocation, in order
  issued,               \* tool names requested by the model in tool_calls turns, in order
  finishReason,         \* runAgent: const finishReason of the latest reply ("" before any)
  outcome,              \* how the loop of runAgent ended ("" while it runs)
  returnValue,          \* what runAgent handed to its caller
  expectedSpec,         \* the ExpectedWorkflowSpec handed to evaluateTrace
  report                \* what evaluateTrace produced

vars == <<pc, stepCount, finalReportReceived, trace, messages, batch, idx,
          pending, llmCalls, toolsSent, issued, finishReason, outcome,
          returnValue, expectedSpec, report>>

(***************************************************************************)
(* Bounds of the model.                                                    *)
(***************************************************************************)
\* config.evaluation.maxSteps, scaled down (15 in loadConfig)
MaxSteps == 3
\* longest tool_calls list a model reply carries
MaxBatch == 2
\* the model's replies are limited so that a trace holds at most this many tool steps
MaxTrace == 3
\* longest trace handed to evaluateTrace directly
MaxEvalLen == 3
\* longest trace of the scenario runs of evaluateTrace
MaxScenarioLen == 4

(***************************************************************************)
(* JSON-shaped values.  A number-or-undefined field is <<n>> or <<>>.      *)
(***************************************************************************)
JSNum(n) == <<n>>
JSUndefined == <<>>

JSNull == [kind |-> "null"]

\* The object a tool-call argument string parses to.  Absent properties are
\* "" (method, expectedType), <<>> (url), undefined (the counts, data).
EmptyObject ==
  [kind |-> "object", method |-> "", url |-> <<>>,
   data |-> [json |-> TRUE, kind |-> "undefined"], expectedType |-> "",
   totalTests |-> JSUndefined, successCount |-> JSUndefined, errorCount |-> JSUndefined]

CallApiArgs(method, url) == [EmptyObject EXCEPT !.method = method, !.url = url]

ValidateSchemaArgs(data, expectedType) ==
  [EmptyObject EXCEPT !.data = data, !.expectedType = expectedType]

FinalReportArgs(tt, sc, ec) ==
  [EmptyObject EXCEPT !.totalTests = JSNum(tt), !.successCount = JSNum(sc),
                      !.errorCount = JSNum(ec)]

(***************************************************************************)
(* URLs are sequences of tokens: the origin, "/", path words, and single   *)
(* characters "-", "0".."9" of a numeric segment.                          *)
(***************************************************************************)
Origin == "http://localhost:3000"

Digits == {"0", "1", "2", "3", "4", "5", "6", "7", "8", "9"}

DigitValue(c) ==
  CASE c = "0" -> 0 [] c = "1" -> 1 [] c = "2" -> 2 [] c = "3" -> 3 [] c = "4" -> 4
    [] c = "5" -> 5 [] c = "6" -> 6 [] c = "7" -> 7 [] c = "8" -> 8 [] c = "9" -> 9

UrlUsers1 == <<Origin, "/", "users", "/", "1">>
UrlUsers999 == <<Origin, "/", "users", "/", "9", "9", "9">>
UrlUsersNeg1 == <<Origin, "/", "users", "/", "-", "1">>
UrlHealth == <<Origin, "/", "health">>
UrlUsers999Posts == <<Origin, "/", "users", "/", "9", "9", "9", "/", "posts">>
UrlUsersMe == <<Origin, "/", "users", "/", "me">>
UrlRelative == <<"/", "users", "/", "1">>

\* new URL(url): throws unless the string is an absolute URL
URLParses(url) == Len(url) > 0 /\ url[1] = Origin

(***************************************************************************)
(* tools.ts: schemas.  A JSON body is [json |-> FALSE] (unparsable) or     *)
(* [json |-> TRUE, kind, fields], fields mapping each property to its type *)
(***************************************************************************)
BodyObject(fields) == [json |-> TRUE, kind |-> "object", fields |-> fields]
BodyNotJson == [json |-> FALSE]

UserBody == BodyObject([id |-> "number", name |-> "string", email |-> "string"])
UserBodyExtra ==
  BodyObject([id |-> "number", name |-> "string", email |-> "string", role |-> "string"])
ErrorBody == BodyObject([error |-> "string"])
UserBodyNoEmail == BodyObject([id |-> "number", name |-> "string"])
UserBodyStringId == BodyObject([id |-> "string", name |-> "string", email |-> "string"])
ErrorBodyExtra == BodyObject([error |-> "string", code |-> "number"])
BodyScalar == [json |-> TRUE, kind |-> "number"]
BadErrorBody == BodyObject([error |-> "number"])

\* ajv.compile(userSchema)
validateUser(data) ==
  /\ data.kind = "object"
  /\ {"id", "name", "email"} \subseteq DOMAIN data.fields
  /\ data.fields.id = "number"
  /\ data.fields.name = "string"
  /\ data.fields.email = "string"
  /\ DOMAIN data.fields \subseteq {"id", "name", "email"}

\* an error schema that forbids additional properties, as the user schema does
validateErrorStrict(data) ==
  /\ data.kind = "object"
  /\ "error" \in DOMAIN data.fields
  /\ data.fields.error = "string"
  /\ DOMAIN data.fields \subseteq {"error"}

\* ajv.compile(errorSchema)
validateError(data) ==
  /\ data.kind = "object"
  /\ "error" \in DOMAIN data.fields
  /\ data.fields.error = "string"

\* tools.ts generateTestIds
generateTestIds == <<1, 50, 100, -1, 999>>

(***************************************************************************)
(* tools.ts callApi.  http is what the transport delivers:                 *)
(* [net |-> "error"] or [net |-> "ok", statusCode, body].                  *)
(* The URL is parsed inside the Promise executor, so a URL that does not   *)
(* parse rejects the returned promise: the try/catch around                *)
(* "return new Promise" does not see it.                                   *)
(***************************************************************************)
ApiResult(status, data, schemaValid) ==
  [kind |-> "api", status |-> status, data |-> data, schemaValid |-> schemaValid]

callApiThrows(method, url) == ~URLParses(url)

\* a callApi that reports status 0 for a body it cannot parse
callApiStatusZero(method, url, http) ==
  IF http.net = "error"
  THEN ApiResult(0, ErrorBody, FALSE)
  ELSE IF ~http.body.json
       THEN ApiResult(0, ErrorBody, FALSE)
       ELSE ApiResult(http.statusCode, http.body,
                      IF http.statusCode = 200 THEN validateUser(http.body)
                      ELSE IF http.statusCode = 404 THEN validateError(http.body)
                      ELSE FALSE)

callApi(method, url, http) ==
  IF http.net = "error"
  THEN ApiResult(0, ErrorBody, FALSE)
  ELSE IF ~http.body.json
       THEN ApiResult(http.statusCode, ErrorBody, FALSE)
       ELSE ApiResult(http.statusCode, http.body,
                      IF http.statusCode = 200 THEN validateUser(http.body)
                      ELSE IF http.statusCode = 404 THEN validateError(http.body)
                      ELSE FALSE)

\* tools.ts validateSchema
validateSchema(data, expectedType) ==
  [kind |-> "validation",
   valid |-> IF expectedType = "user" THEN validateUser(data) ELSE validateError(data)]

(***************************************************************************)
(* tools.ts executeTool: dispatch by name.  args is the parsed argument    *)
(* value: JSNull or an object.  Reading a property of null throws.         *)
(***************************************************************************)
ToolNames == <<"generateTestIds", "callApi", "validateSchema", "final_report">>

\* tools.ts getToolDefinitions: the function names of the descriptors, in array order
getToolDefinitions == <<"generateTestIds", "callApi", "validateSchema", "final_report">>

Catalog == {ToolNames[i] : i \in 1..Len(ToolNames)}

ErrorInfo(type, about) == [type |-> type, about |-> about]

\* a dispatch whose switch has no case for validateSchema
executeToolThrowsThreeCases(functionName, args) ==
  CASE functionName = "generateTestIds" -> FALSE
    [] functionName = "callApi" ->
         IF args.kind = "null" THEN TRUE ELSE callApiThrows(args.method, args.url)
    [] functionName = "final_report" -> FALSE
    [] OTHER -> TRUE

executeToolThrows(functionName, args) ==
  CASE functionName = "generateTestIds" -> FALSE
    [] functionName = "callApi" ->
         IF args.kind = "null" THEN TRUE ELSE callApiThrows(args.method, args.url)
    [] functionName = "validateSchema" -> args.kind = "null"
    [] functionName = "final_report" -> FALSE
    [] OTHER -> TRUE

\* an unknown-tool error that does not say which tool was asked for
executeToolErrorGeneric(functionName, args) ==
  CASE functionName \notin Catalog -> ErrorInfo("Error: Unknown tool", "")
    [] args.kind = "null" -> ErrorInfo("TypeError", functionName)
    [] OTHER -> ErrorInfo("TypeError: Invalid URL", functionName)

executeToolError(functionName, args) ==
  CASE functionName \notin Catalog -> ErrorInfo("Error: Unknown tool", functionName)
    [] args.kind = "null" -> ErrorInfo("TypeError", functionName)
    [] OTHER -> ErrorInfo("TypeError: Invalid URL", functionName)

executeTool(functionName, args, http) ==
  CASE functionName = "generateTestIds" -> [kind |-> "ids", ids |-> generateTestIds]
    [] functionName = "callApi" -> callApi(args.method, args.url, http)
    [] functionName = "validateSchema" -> validateSchema(args.data, args.expectedType)
    [] functionName = "final_report" -> args

(***************************************************************************)
(* What the environment supplies: the model's replies and the endpoint's   *)
(* responses.                                                              *)
(***************************************************************************)
\* JSON.parse of a tool call's argument string
RawArguments(wellFormed, value) == [wellFormed |-> wellFormed, value |-> value]

JSONparseThrows(arguments) == ~arguments.wellFormed

JSONparse(arguments) == arguments.value

Request(name, arguments) == [name |-> name, arguments |-> arguments]

\* the tool calls a model reply is built from
ToolCallChoices ==
  { Request("generateTestIds", RawArguments(TRUE, EmptyObject)),
    Request("generateTestIds", RawArguments(FALSE, JSNull)),
    Request("callApi", RawArguments(TRUE, CallApiArgs("GET", UrlUsers999))),
    Request("callApi", RawArguments(TRUE, CallApiArgs("GET", UrlRelative))),
    Request("final_report", RawArguments(TRUE, FinalReportArgs(1, 0, 1))),
    Request("final_report", RawArguments(TRUE, JSNull)),
    Request("deleteUser", RawArguments(TRUE, EmptyObject)) }

\* the gateway gives each tool call of a reply an id of its own
WithIds(turn, reqs) ==
  [i \in 1..Len(reqs) |->
     [id |-> <<turn, i>>, name |-> reqs[i].name, arguments |-> reqs[i].arguments]]

FinishReasons == {"tool_calls", "stop", "length"}

\* a reply: the finish reason, and message.tool_calls (absent, or a list)
Reply(reason, hasToolCalls, reqs) ==
  [finishReason |-> reason, hasToolCalls |-> hasToolCalls, tool_calls |-> reqs]

\* replies that carry a list of k tool calls and the finish reason tool_calls
ToolCallReplies(k) == {Reply("tool_calls", TRUE, reqs) : reqs \in [1..k -> ToolCallChoices]}

\* replies without tool calls, and replies whose finish reason is not tool_calls
OtherReplies ==
  {Reply(f, FALSE, <<>>) : f \in FinishReasons}
    \cup {Reply(f, TRUE, <<Request("generateTestIds", RawArguments(TRUE, EmptyObject))>>) :
            f \in FinishReasons \ {"tool_calls"}}

HttpOk(statusCode, body) == [net |-> "ok", statusCode |-> statusCode, body |-> body]

HttpOutcomes == {HttpOk(200, UserBody), HttpOk(404, ErrorBody), [net |-> "error"]}

(***************************************************************************)
(* evaluate.ts: the five checks.  Numbers that may be fractions are        *)
(* rationals [num, den] with den > 0.  A message or an error entry is      *)
(* [text, names, nums]: its fixed text and the values interpolated in it.  *)
(***************************************************************************)
Rat(n, d) == [num |-> n, den |-> d]
RatEq(a, b) == a.num * b.den = b.num * a.den
RatLeq(a, b) == a.num * b.den <= b.num * a.den
RatAdd(a, b) == Rat(a.num * b.den + b.num * a.den, a.den * b.den)
RatDiv(a, k) == Rat(a.num, a.den * k)
\* (n / d) * 100
Percent(n, d) == Rat(n * 100, d)

Msg(text, names, nums) == [text |-> text, names |-> names, nums |-> nums]

CheckResult(passed, message, errors) ==
  [passed |-> passed, message |-> message, errors |-> errors]

RECURSIVE Flatten(_)
Flatten(ss) == IF ss = <<>> THEN <<>> ELSE Head(ss) \o Flatten(Tail(ss))

Actions(tr) == {tr[i].action : i \in 1..Len(tr)}

\* a membership test that never looks at the last element
IncludesButLast(seq, x) == \E i \in 1..(Len(seq) - 1) : seq[i] = x

Includes(seq, x) == \E i \in 1..Len(seq) : seq[i] = x

\* /\/users\/(-?\d+)/ : the leftmost "/users/" followed by an optional "-" and digits
DigitsFrom(url, i) == i <= Len(url) /\ url[i] \in Digits

\* a pattern without the optional minus sign
NumberStartUnsigned(url, i) == i + 3

NumberStart(url, i) ==
  IF i + 3 <= Len(url) /\ url[i + 3] = "-" THEN i + 4 ELSE i + 3

MatchAt(url, i) ==
  /\ i + 3 <= Len(url)
  /\ url[i] = "/"
  /\ url[i + 1] = "users"
  /\ url[i + 2] = "/"
  /\ DigitsFrom(url, NumberStart(url, i))

RECURSIVE DigitRun(_, _, _)
\* the value of the longest run of digits of url starting at i, after acc
DigitRun(url, i, acc) ==
  IF DigitsFrom(url, i) THEN DigitRun(url, i + 1, acc * 10 + DigitValue(url[i])) ELSE acc

\* url?.match(...) then parseInt(urlMatch[1], 10): <<id>>, or <<>> when nothing matches
UrlId(url) ==
  LET starts == {i \in 1..Len(url) : MatchAt(url, i)}
  IN IF starts = {} THEN <<>>
     ELSE LET i == CHOOSE m \in starts : \A n \in starts : m <= n
              j == NumberStart(url, i)
              v == DigitRun(url, j, 0)
          IN IF j = i + 4 THEN <<0 - v>> ELSE <<v>>

\* a check that is content with one of the required tools
validateWorkflowAnyTool(tr, spec) ==
  IF Len(tr) = 0
  THEN CheckResult(FALSE, Msg("No steps in trace", <<>>, <<>>),
                   <<Msg("Trace is empty", <<>>, <<>>)>>)
  ELSE LET toolsUsed == Actions(tr)
           missingTools == SelectSeq(spec.requiredTools, LAMBDA tool : tool \notin toolsUsed)
           hasFinalReport == \E i \in 1..Len(tr) : tr[i].action = "final_report"
           errors ==
             (IF Len(missingTools) > 0 /\ Len(missingTools) = Len(spec.requiredTools)
              THEN <<Msg("Missing required tools", missingTools, <<>>)>> ELSE <<>>)
             \o (IF spec.mustHaveFinalReport /\ ~hasFinalReport
                 THEN <<Msg("Agent did not submit final_report", <<>>, <<>>)>> ELSE <<>>)
       IN CheckResult(Len(errors) = 0,
                      IF Len(errors) = 0
                      THEN Msg("Workflow complete, all required tools used", <<>>, <<Len(tr)>>)
                      ELSE Msg("Workflow issues found", <<>>, <<>>),
                      errors)

\* a check that asks for final_report whatever spec.mustHaveFinalReport says
validateWorkflowAlwaysFinal(tr, spec) ==
  IF Len(tr) = 0
  THEN CheckResult(FALSE, Msg("No steps in trace", <<>>, <<>>),
                   <<Msg("Trace is empty", <<>>, <<>>)>>)
  ELSE LET toolsUsed == Actions(tr)
           missingTools == SelectSeq(spec.requiredTools, LAMBDA tool : tool \notin toolsUsed)
           hasFinalReport == \E i \in 1..Len(tr) : tr[i].action = "final_report"
           errors ==
             (IF Len(missingTools) > 0
              THEN <<Msg("Missing required tools", missingTools, <<>>)>> ELSE <<>>)
             \o (IF ~hasFinalReport
                 THEN <<Msg("Agent did not submit final_report", <<>>, <<>>)>> ELSE <<>>)
       IN CheckResult(Len(errors) = 0,
                      IF Len(errors) = 0
                      THEN Msg("Workflow complete, all required tools used", <<>>, <<Len(tr)>>)
                      ELSE Msg("Workflow issues found", <<>>, <<>>),
                      errors)

validateWorkflow(tr, spec) ==
  IF Len(tr) = 0
  THEN CheckResult(FALSE, Msg("No steps in trace", <<>>, <<>>),
                   <<Msg("Trace is empty", <<>>, <<>>)>>)
  ELSE LET toolsUsed == Actions(tr)
           missingTools == SelectSeq(spec.requiredTools, LAMBDA tool : tool \notin toolsUsed)
           hasFinalReport == \E i \in 1..Len(tr) : tr[i].action = "final_report"
           errors ==
             (IF Len(missingTools) > 0
              THEN <<Msg("Missing required tools", missingTools, <<>>)>> ELSE <<>>)
             \o (IF spec.mustHaveFinalReport /\ ~hasFinalReport
                 THEN <<Msg("Agent did not submit final_report", <<>>, <<>>)>> ELSE <<>>)
       IN CheckResult(Len(errors) = 0,
                      IF Len(errors) = 0
                      THEN Msg("Workflow complete, all required tools used", <<>>, <<Len(tr)>>)
                      ELSE Msg("Workflow issues found", <<>>, <<>>),
                      errors)

\* a list of valid tools that leaves final_report out
validToolsRequiredOnly(spec) == spec.requiredTools

\* a list of valid tools that admits the catch block's 'error' action
validToolsWithError(spec) == spec.requiredTools \o <<"final_report", "error">>

validTools(spec) == spec.requiredTools \o <<"final_report">>

\* reading step.args.method of null arguments throws
validateToolUsageThrows(tr) ==
  \E i \in 1..Len(tr) : tr[i].action = "callApi" /\ tr[i].args.kind = "null"

validateToolUsage(tr, spec) ==
  LET stepErrors(step) ==
        (IF ~Includes(validTools(spec), step.action)
         THEN <<Msg("Unknown tool", <<step.action>>, <<step.step>>)>> ELSE <<>>)
        \o (IF step.action = "callApi"
            THEN IF step.args.method = "" \/ step.args.url = <<>>
                 THEN <<Msg("callApi missing method or url", <<>>, <<step.step>>)>>
                 ELSE <<>>
            ELSE <<>>)
      errors == Flatten([i \in 1..Len(tr) |-> stepErrors(tr[i])])
  IN CheckResult(Len(errors) = 0,
                 IF Len(errors) = 0 THEN Msg("All tools used correctly", <<>>, <<>>)
                 ELSE Msg("Found tool usage error(s)", <<>>, <<Len(errors)>>),
                 errors)

ApiCalls(tr) == SelectSeq(tr, LAMBDA step : step.action = "callApi")

\* reading result.schemaValid of a null result, or step.args.url of null arguments, throws
validateSchemasThrows(tr) ==
  \E i \in 1..Len(tr) :
    /\ tr[i].action = "callApi"
    /\ IF tr[i].result.kind = "null" THEN TRUE
       ELSE ~tr[i].result.schemaValid /\ tr[i].args.kind = "null"

\* a schema check that passes when no callApi step has an invalid schema, none included
validateSchemasVacuous(tr) ==
  LET apiCalls == ApiCalls(tr)
      totalApiCalls == Len(apiCalls)
      invalid == SelectSeq(apiCalls, LAMBDA step : ~step.result.schemaValid)
      validSchemas == totalApiCalls - Len(invalid)
      errors == [i \in 1..Len(invalid) |->
                   Msg("Invalid schema", invalid[i].args.url,
                       <<invalid[i].step, invalid[i].result.status>>)]
  IN CheckResult(Len(errors) = 0,
                 IF totalApiCalls = 0 THEN Msg("No API calls found", <<>>, <<>>)
                 ELSE Msg("API responses have valid schemas", <<>>,
                          <<validSchemas, totalApiCalls>>),
                 errors)

validateSchemas(tr) ==
  LET apiCalls == ApiCalls(tr)
      totalApiCalls == Len(apiCalls)
      invalid == SelectSeq(apiCalls, LAMBDA step : ~step.result.schemaValid)
      validSchemas == totalApiCalls - Len(invalid)
      errors == [i \in 1..Len(invalid) |->
                   Msg("Invalid schema", invalid[i].args.url,
                       <<invalid[i].step, invalid[i].result.status>>)]
  IN CheckResult(Len(errors) = 0 /\ totalApiCalls > 0,
                 IF totalApiCalls = 0 THEN Msg("No API calls found", <<>>, <<>>)
                 ELSE Msg("API responses have valid schemas", <<>>,
                          <<validSchemas, totalApiCalls>>),
                 errors)

\* the callApi steps whose URL yields an id listed in spec.invalidTestIds
ErrorTests(tr, spec) ==
  SelectSeq(tr, LAMBDA step :
    IF step.action = "callApi"
    THEN LET id == UrlId(step.args.url)
         IN IF id = <<>> THEN FALSE ELSE id[1] \in spec.invalidTestIds
    ELSE FALSE)

\* a test that looks at the status only
HandledCorrectlyStatusOnly(step) == step.result.status = 404

HandledCorrectly(step) == step.result.status = 404 /\ step.result.schemaValid

\* reading step.args.url of null arguments, or result.status of a null result, throws
validateErrorHandlingThrows(tr, spec) ==
  \E i \in 1..Len(tr) :
    /\ tr[i].action = "callApi"
    /\ IF tr[i].args.kind = "null" THEN TRUE
       ELSE LET id == UrlId(tr[i].args.url)
            IN IF id = <<>> THEN FALSE
               ELSE id[1] \in spec.invalidTestIds /\ tr[i].result.kind = "null"

validateErrorHandling(tr, spec) ==
  LET errorTests == ErrorTests(tr, spec)
      errorTestsFound == Len(errorTests)
      failed == SelectSeq(errorTests, LAMBDA step : ~HandledCorrectly(step))
      errorTestsPassed == errorTestsFound - Len(failed)
      errors == [i \in 1..Len(failed) |->
                   Msg("Invalid ID not handled correctly", <<>>,
                       <<failed[i].step, UrlId(failed[i].args.url)[1],
                         failed[i].result.status,
                         IF failed[i].result.schemaValid THEN 1 ELSE 0>>)]
  IN CheckResult(errorTestsFound > 0 /\ Len(errors) = 0,
                 IF errorTestsFound = 0 THEN Msg("No error test cases found", <<>>, <<>>)
                 ELSE Msg("error cases handled correctly", <<>>,
                          <<errorTestsPassed, errorTestsFound>>),
                 errors)

\* a search for the final report that starts from the end of the trace
FinalStepsFromEnd(tr) ==
  LET finals == SelectSeq(tr, LAMBDA step : step.action = "final_report")
  IN [i \in 1..Len(finals) |-> finals[Len(finals) + 1 - i]]

FinalSteps(tr) == SelectSeq(tr, LAMBDA step : step.action = "final_report")

\* reading report.totalTests of a null result throws
validateFinalReportThrows(tr) ==
  IF Len(FinalSteps(tr)) = 0 THEN FALSE
  ELSE Head(FinalSteps(tr)).result.kind = "null"

\* a check that compares totalTests with the number of steps and stops at the first mismatch
validateFinalReportFirstMismatch(tr) ==
  IF Len(FinalSteps(tr)) = 0
  THEN CheckResult(FALSE, Msg("No final_report submitted", <<>>, <<>>),
                   <<Msg("Agent did not call final_report", <<>>, <<>>)>>)
  ELSE LET rep == Head(FinalSteps(tr)).result
           apiCalls == ApiCalls(tr)
           successCalls == SelectSeq(apiCalls, LAMBDA step : step.result.status = 200)
           errorCalls == SelectSeq(apiCalls, LAMBDA step : step.result.status = 404)
           errors ==
             IF rep.totalTests # JSNum(Len(apiCalls))
             THEN <<Msg("Report totalTests doesn't match actual API calls", <<>>,
                        rep.totalTests \o <<Len(apiCalls)>>)>>
             ELSE IF rep.successCount # JSNum(Len(successCalls))
             THEN <<Msg("Report successCount doesn't match actual successes", <<>>,
                        rep.successCount \o <<Len(successCalls)>>)>>
             ELSE IF rep.errorCount # JSNum(Len(errorCalls))
             THEN <<Msg("Report errorCount doesn't match actual errors", <<>>,
                        rep.errorCount \o <<Len(errorCalls)>>)>>
             ELSE <<>>
       IN CheckResult(Len(errors) = 0,
                      IF Len(errors) = 0
                      THEN Msg("Final report matches trace", <<>>,
                               rep.totalTests \o rep.successCount \o rep.errorCount)
                      ELSE Msg("Final report has inconsistencies", <<>>, <<>>),
                      errors)

\* a check that reads the counts of the latest final_report step
validateFinalReportLatest(tr) ==
  IF Len(FinalSteps(tr)) = 0
  THEN CheckResult(FALSE, Msg("No final_report submitted", <<>>, <<>>),
                   <<Msg("Agent did not call final_report", <<>>, <<>>)>>)
  ELSE LET rep == FinalSteps(tr)[Len(FinalSteps(tr))].result
           apiCalls == ApiCalls(tr)
           successCalls == SelectSeq(apiCalls, LAMBDA step : step.result.status = 200)
           errorCalls == SelectSeq(apiCalls, LAMBDA step : step.result.status = 404)
           errors ==
             (IF rep.totalTests # JSNum(Len(apiCalls))
              THEN <<Msg("Report totalTests doesn't match actual API calls", <<>>,
                         rep.totalTests \o <<Len(apiCalls)>>)>> ELSE <<>>)
             \o (IF rep.successCount # JSNum(Len(successCalls))
                 THEN <<Msg("Report successCount doesn't match actual successes", <<>>,
                            rep.successCount \o <<Len(successCalls)>>)>> ELSE <<>>)
             \o (IF rep.errorCount # JSNum(Len(errorCalls))
                 THEN <<Msg("Report errorCount doesn't match actual errors", <<>>,
                            rep.errorCount \o <<Len(errorCalls)>>)>> ELSE <<>>)
       IN CheckResult(Len(errors) = 0,
                      IF Len(errors) = 0
                      THEN Msg("Final report matches trace", <<>>,
                               rep.totalTests \o rep.successCount \o rep.errorCount)
                      ELSE Msg("Final report has inconsistencies", <<>>, <<>>),
                      errors)

validateFinalReport(tr) ==
  IF Len(FinalSteps(tr)) = 0
  THEN CheckResult(FALSE, Msg("No final_report submitted", <<>>, <<>>),
                   <<Msg("Agent did not call final_report", <<>>, <<>>)>>)
  ELSE LET rep == Head(FinalSteps(tr)).result
           apiCalls == ApiCalls(tr)
           successCalls == SelectSeq(apiCalls, LAMBDA step : step.result.status = 200)
           errorCalls == SelectSeq(apiCalls, LAMBDA step : step.result.status = 404)
           errors ==
             (IF rep.totalTests # JSNum(Len(apiCalls))
              THEN <<Msg("Report totalTests doesn't match actual API calls", <<>>,
                         rep.totalTests \o <<Len(apiCalls)>>)>> ELSE <<>>)
             \o (IF rep.successCount # JSNum(Len(successCalls))
                 THEN <<Msg("Report successCount doesn't match actual successes", <<>>,
                            rep.successCount \o <<Len(successCalls)>>)>> ELSE <<>>)
             \o (IF rep.errorCount # JSNum(Len(errorCalls))
                 THEN <<Msg("Report errorCount doesn't match actual errors", <<>>,
                            rep.errorCount \o <<Len(errorCalls)>>)>> ELSE <<>>)
       IN CheckResult(Len(errors) = 0,
                      IF Len(errors) = 0
                      THEN Msg("Final report matches trace", <<>>,
                               rep.totalTests \o rep.successCount \o rep.errorCount)
                      ELSE Msg("Final report has inconsistencies", <<>>, <<>>),
                      errors)

\* an accuracy that is 100 when there is no step to get wrong
calculateToolAccuracyVacuous(tr, spec) ==
  IF Len(tr) = 0 THEN Rat(100, 1)
  ELSE LET correctUsage ==
             Len(SelectSeq(tr, LAMBDA step : Includes(validTools(spec), step.action)))
       IN Percent(correctUsage, Len(tr))

\* a tool accuracy that counts the steps of required tools only
calculateToolAccuracyRequiredOnly(tr, spec) ==
  IF Len(tr) = 0 THEN Rat(0, 1)
  ELSE LET correctUsage ==
             Len(SelectSeq(tr, LAMBDA step : Includes(spec.requiredTools, step.action)))
       IN Percent(correctUsage, Len(tr))

calculateToolAccuracy(tr, spec) ==
  IF Len(tr) = 0 THEN Rat(0, 1)
  ELSE LET correctUsage ==
             Len(SelectSeq(tr, LAMBDA step : Includes(validTools(spec), step.action)))
       IN Percent(correctUsage, Len(tr))

\* a rate taken over all the steps of the trace
calculateSchemaPassRateOverSteps(tr) ==
  LET apiCalls == ApiCalls(tr)
  IN IF Len(apiCalls) = 0 THEN Rat(0, 1)
     ELSE Percent(Len(SelectSeq(apiCalls, LAMBDA step : step.result.schemaValid)), Len(tr))

calculateSchemaPassRate(tr) ==
  LET apiCalls == ApiCalls(tr)
  IN IF Len(apiCalls) = 0 THEN Rat(0, 1)
     ELSE Percent(Len(SelectSeq(apiCalls, LAMBDA step : step.result.schemaValid)),
                  Len(apiCalls))

\* a rate that is 100 when there is nothing to handle
calculateFailureHandlingVacuous(tr, spec) ==
  LET errorTests == ErrorTests(tr, spec)
  IN IF Len(errorTests) = 0 THEN Rat(100, 1)
     ELSE Percent(Len(SelectSeq(errorTests, HandledCorrectly)), Len(errorTests))

calculateFailureHandling(tr, spec) ==
  LET errorTests == ErrorTests(tr, spec)
  IN IF Len(errorTests) = 0 THEN Rat(0, 1)
     ELSE Percent(Len(SelectSeq(errorTests, HandledCorrectly)), Len(errorTests))

\* a mean whose sum leaves the schema pass rate out
overallScoreWithoutSchema(scores) ==
  RatDiv(RatAdd(RatAdd(RatAdd(scores.stepAccuracy, scores.toolAccuracy),
                       scores.failureHandling),
                scores.finalCorrectness), 5)

\* a mean that divides the sum of the five scores by four
overallScoreOfFour(scores) ==
  RatDiv(RatAdd(RatAdd(RatAdd(RatAdd(scores.stepAccuracy, scores.toolAccuracy),
                              scores.schemaPassRate),
                       scores.failureHandling),
                scores.finalCorrectness), 4)

\* (stepAccuracy + toolAccuracy + schemaPassRate + failureHandling + finalCorrectness) / 5
overallScore(scores) ==
  RatDiv(RatAdd(RatAdd(RatAdd(RatAdd(scores.stepAccuracy, scores.toolAccuracy),
                              scores.schemaPassRate),
                       scores.failureHandling),
                scores.finalCorrectness), 5)

\* evaluateTrace propagates whatever a check throws
evaluateTraceThrows(tr, spec) ==
  \/ validateToolUsageThrows(tr)
  \/ validateSchemasThrows(tr)
  \/ validateErrorHandlingThrows(tr, spec)
  \/ validateFinalReportThrows(tr)

\* an evaluation whose completion flag asks for all five checks to pass
evaluateTraceAllPassed(tr, spec) ==
  LET workflowResult == validateWorkflow(tr, spec)
      toolResult == validateToolUsage(tr, spec)
      schemaResult == validateSchemas(tr)
      errorResult == validateErrorHandling(tr, spec)
      finalResult == validateFinalReport(tr)
      scores == [stepAccuracy |-> IF workflowResult.passed THEN Rat(100, 1) ELSE Rat(50, 1),
                 toolAccuracy |-> calculateToolAccuracy(tr, spec),
                 schemaPassRate |-> calculateSchemaPassRate(tr),
                 failureHandling |-> calculateFailureHandling(tr, spec),
                 finalCorrectness |-> IF finalResult.passed THEN Rat(100, 1) ELSE Rat(0, 1)]
  IN [kind |-> "report",
      summary |-> [totalSteps |-> Len(tr),
                   scores |-> [stepAccuracy |-> scores.stepAccuracy,
                               toolAccuracy |-> scores.toolAccuracy,
                               schemaPassRate |-> scores.schemaPassRate,
                               failureHandling |-> scores.failureHandling,
                               finalCorrectness |-> scores.finalCorrectness,
                               overallScore |-> overallScore(scores)],
                   agentCompleted |-> /\ workflowResult.passed
                                      /\ toolResult.passed
                                      /\ schemaResult.passed
                                      /\ errorResult.passed
                                      /\ finalResult.passed],
      details |-> [workflow |-> workflowResult,
                   toolUsage |-> toolResult,
                   schemaValidation |-> schemaResult,
                   errorHandling |-> errorResult,
                   finalReport |-> finalResult],
      trace |-> tr]

\* an evaluation that gives a failed workflow no step accuracy at all
evaluateTraceNoPartialCredit(tr, spec) ==
  LET workflowResult == validateWorkflow(tr, spec)
      toolResult == validateToolUsage(tr, spec)
      schemaResult == validateSchemas(tr)
      errorResult == validateErrorHandling(tr, spec)
      finalResult == validateFinalReport(tr)
      scores == [stepAccuracy |-> IF workflowResult.passed THEN Rat(100, 1) ELSE Rat(0, 1),
                 toolAccuracy |-> calculateToolAccuracy(tr, spec),
                 schemaPassRate |-> calculateSchemaPassRate(tr),
                 failureHandling |-> calculateFailureHandling(tr, spec),
                 finalCorrectness |-> IF finalResult.passed THEN Rat(100, 1) ELSE Rat(0, 1)]
  IN [kind |-> "report",
      summary |-> [totalSteps |-> Len(tr),
                   scores |-> [stepAccuracy |-> scores.stepAccuracy,
                               toolAccuracy |-> scores.toolAccuracy,
                               schemaPassRate |-> scores.schemaPassRate,
                               failureHandling |-> scores.failureHandling,
                               finalCorrectness |-> scores.finalCorrectness,
                               overallScore |-> overallScore(scores)],
                   agentCompleted |-> finalResult.passed],
      details |-> [workflow |-> workflowResult,
                   toolUsage |-> toolResult,
                   schemaValidation |-> schemaResult,
                   errorHandling |-> errorResult,
                   finalReport |-> finalResult],
      trace |-> tr]

evaluateTrace(tr, spec) ==
  LET workflowResult == validateWorkflow(tr, spec)
      toolResult == validateToolUsage(tr, spec)
      schemaResult == validateSchemas(tr)
      errorResult == validateErrorHandling(tr, spec)
      finalResult == validateFinalReport(tr)
      scores == [stepAccuracy |-> IF workflowResult.passed THEN Rat(100, 1) ELSE Rat(50, 1),
                 toolAccuracy |-> calculateToolAccuracy(tr, spec),
                 schemaPassRate |-> calculateSchemaPassRate(tr),
                 failureHandling |-> calculateFailureHandling(tr, spec),
                 finalCorrectness |-> IF finalResult.passed THEN Rat(100, 1) ELSE Rat(0, 1)]
  IN [kind |-> "report",
      summary |-> [totalSteps |-> Len(tr),
                   scores |-> [stepAccuracy |-> scores.stepAccuracy,
                               toolAccuracy |-> scores.toolAccuracy,
                               schemaPassRate |-> scores.schemaPassRate,
                               failureHandling |-> scores.failureHandling,
                               finalCorrectness |-> scores.finalCorrectness,
                               overallScore |-> overallScore(scores)],
                   agentCompleted |-> finalResult.passed],
      details |-> [workflow |-> workflowResult,
                   toolUsage |-> toolResult,
                   schemaValidation |-> schemaResult,
                   errorHandling |-> errorResult,
                   finalReport |-> finalResult],
      trace |-> tr]

(***************************************************************************)
(* evaluate.ts (agentRunner part): runAgent.                               *)
(***************************************************************************)
SystemMessage == [role |-> "system"]
UserMessage == [role |-> "user"]
AssistantMessage(turn, reply) ==
  [role |-> "assistant", id |-> turn, nToolCalls |-> Len(reply.tool_calls)]
SyntheticMessage == [role |-> "assistant", id |-> 0, nToolCalls |-> 0]
\* a tool message keyed by the id of the first call of the batch
ToolMessageOfBatchHead(toolCall) ==
  [role |-> "tool", tool_call_id |-> <<toolCall.id[1], 1>>, name |-> toolCall.name]
ToolMessage(toolCall) ==
  [role |-> "tool", tool_call_id |-> toolCall.id, name |-> toolCall.name]

TraceStep(step, llmMessage, action, args, result) ==
  [step |-> step, llmMessage |-> llmMessage, action |-> action,
   args |-> args, result |-> result]

\* the expectedSpec of main() (expectedApiCalls and validStatusCodes are never read)
MainSpec ==
  [requiredTools |-> <<"generateTestIds", "callApi">>,
   invalidTestIds |-> {-1, 999},
   mustHaveFinalReport |-> TRUE]

NoReport == [kind |-> "none"]

NoValue == [kind |-> "none"]
Returned(tr) == [kind |-> "value", value |-> tr]
Thrown == [kind |-> "threw"]

Init ==
  /\ pc = "while"
  /\ stepCount = 0
  /\ finalReportReceived = FALSE
  /\ trace = <<>>
  /\ messages = <<SystemMessage, UserMessage>>
  /\ batch = <<>>
  /\ idx = 1
  /\ pending = {}
  /\ llmCalls = 0
  /\ toolsSent = <<>>
  /\ issued = <<>>
  /\ finishReason = ""
  /\ outcome = ""
  /\ returnValue = NoValue
  /\ expectedSpec = MainSpec
  /\ report = NoReport

\* leaving the loop: the log after it, then return trace
ReturnTrace(tr, why) ==
  /\ trace' = tr
  /\ pc' = "returned"
  /\ outcome' = why
  /\ returnValue' = Returned(tr)
  /\ pending' = {}

\* a recorder that numbers the steps by their position in the trace
StepNumberByPosition(count, tr) == Len(tr) + 1

\* a step field that counts the turns from zero
StepNumberFromZero(count, tr) == count - 1

\* step: stepCount
StepNumber(count, tr) == count

\* the step the catch block records
ErrorStep(count, tr, info) ==
  TraceStep(StepNumber(count, tr), SyntheticMessage, "error", EmptyObject,
            [kind |-> "error", error |-> info])

\* a catch block that records the error step and goes on with the next turn
CatchAndContinue(tr, info) ==
  /\ trace' = Append(tr, ErrorStep(stepCount, tr, info))
  /\ pc' = "while"
  /\ pending' = {}
  /\ UNCHANGED <<outcome, returnValue>>

\* a catch block that records the error step and rethrows
CatchAndRethrow(tr, info) ==
  /\ trace' = Append(tr, ErrorStep(stepCount, tr, info))
  /\ pc' = "returned"
  /\ outcome' = "execution_error"
  /\ returnValue' = Thrown
  /\ pending' = {}

\* a catch block that returns a trace holding the error step alone
CatchDroppingTrace(tr, info) ==
  ReturnTrace(<<ErrorStep(stepCount, tr, info)>>, "execution_error")

\* catch (error) { trace.push(error step); break; }
Catch(tr, info) ==
  ReturnTrace(Append(tr, ErrorStep(stepCount, tr, info)), "execution_error")

\* a while condition that lets one turn too many through
ContinueLoopOneMore(received, count) == ~received /\ count <= MaxSteps

\* the while condition
ContinueLoop(received, count) == ~received /\ count < MaxSteps

\* while (...) { stepCount++; ... await runLLM(messages, tools)
WhileTest ==
  /\ pc = "while"
  /\ IF ContinueLoop(finalReportReceived, stepCount)
     THEN /\ stepCount' = stepCount + 1
          /\ pending' = {"runLLM"}
          /\ llmCalls' = llmCalls + 1
          /\ toolsSent' = Append(toolsSent, getToolDefinitions)
          /\ pc' = "runLLM"
          /\ UNCHANGED <<trace, outcome, returnValue>>
     ELSE /\ ReturnTrace(trace, IF finalReportReceived THEN "completed"
                                ELSE "max_steps_exceeded")
          /\ UNCHANGED <<stepCount, llmCalls, toolsSent>>
  /\ UNCHANGED <<finalReportReceived, messages, batch, idx, issued, finishReason,
                 expectedSpec, report>>

\* a branch that runs the tool calls of any reply but a stop
WantsToolsUnlessStop(reply) == reply.finishReason # "stop" /\ reply.hasToolCalls

\* a branch that runs the tool calls of a reply whatever its finish reason
WantsToolsAnyReason(reply) == reply.hasToolCalls

\* if (finishReason === 'tool_calls' && message.tool_calls)
WantsTools(reply) == reply.finishReason = "tool_calls" /\ reply.hasToolCalls

\* runLLM resolved: push the message and branch on the finish reason
LLMResolve(reply) ==
  /\ pc = "runLLM"
  /\ pending = {"runLLM"}
  /\ messages' = Append(messages, AssistantMessage(stepCount, reply))
  /\ finishReason' = reply.finishReason
  /\ IF WantsTools(reply)
     THEN /\ batch' = WithIds(stepCount, reply.tool_calls)
          /\ idx' = 1
          /\ issued' = issued \o [i \in 1..Len(reply.tool_calls) |-> reply.tool_calls[i].name]
          /\ pc' = "for"
          /\ pending' = {}
          /\ UNCHANGED <<trace, outcome, returnValue>>
     ELSE /\ ReturnTrace(trace, IF reply.finishReason = "stop" THEN "no_final_report"
                                ELSE "unexpected_finish_reason")
          /\ UNCHANGED <<batch, idx, issued>>
  /\ UNCHANGED <<stepCount, finalReportReceived, llmCalls, toolsSent, expectedSpec, report>>

\* runLLM rejected (no credentials, transport failure, non-200, malformed body)
LLMReject ==
  /\ pc = "runLLM"
  /\ pending = {"runLLM"}
  /\ Catch(trace, ErrorInfo("Error: Azure OpenAI", "runLLM"))
  /\ UNCHANGED <<stepCount, finalReportReceived, messages, batch, idx, llmCalls, toolsSent,
                 issued, finishReason, expectedSpec, report>>

\* a loop that goes through the list from its end
CurrentCallReversed(calls, i) == calls[Len(calls) + 1 - i]

\* for (const toolCall of message.tool_calls): the call the loop is at
CurrentCall(calls, i) == calls[i]

\* a loop that stops as soon as final_report has been received
BatchDoneOrFinal(calls, i, received) == i > Len(calls) \/ received

\* the for-of loop has gone through the whole list
BatchDone(calls, i, received) == i > Len(calls)

\* one turn of the for-of loop: parse the arguments and call executeTool
ForNext ==
  /\ pc = "for"
  /\ IF BatchDone(batch, idx, finalReportReceived)
     THEN /\ pc' = "while"
          /\ UNCHANGED <<trace, pending, outcome, returnValue>>
     ELSE IF JSONparseThrows(CurrentCall(batch, idx).arguments)
          THEN Catch(trace, ErrorInfo("SyntaxError", CurrentCall(batch, idx).name))
          ELSE /\ pending' = pending \cup {CurrentCall(batch, idx).id}
               /\ pc' = "executeTool"
               /\ UNCHANGED <<trace, outcome, returnValue>>
  /\ UNCHANGED <<stepCount, finalReportReceived, messages, batch, idx, llmCalls, toolsSent,
                 issued, finishReason, expectedSpec, report>>

\* trace.push({step: stepCount, llmMessage: message, action, args, result})
RecordedStep(toolCall, result) ==
  TraceStep(StepNumber(stepCount, trace),
            [role |-> "assistant", id |-> stepCount, nToolCalls |-> Len(batch)],
            toolCall.name, JSONparse(toolCall.arguments), result)

\* executeTool resolved: record the step, push the tool message, look for final_report
ToolResolve(http) ==
  /\ pc = "executeTool"
  /\ CurrentCall(batch, idx).id \in pending
  /\ LET toolCall == CurrentCall(batch, idx)
         args == JSONparse(toolCall.arguments)
     IN /\ ~executeToolThrows(toolCall.name, args)
        /\ LET result == executeTool(toolCall.name, args, http)
               recorded == Append(trace, RecordedStep(toolCall, result))
           IN /\ messages' = Append(messages, ToolMessage(toolCall))
              /\ IF toolCall.name = "final_report" /\ result.kind = "null"
                 THEN \* result.summary of null throws
                      /\ Catch(recorded, ErrorInfo("TypeError", toolCall.name))
                      /\ UNCHANGED <<finalReportReceived, idx>>
                 ELSE /\ trace' = recorded
                      /\ finalReportReceived' =
                           (finalReportReceived \/ toolCall.name = "final_report")
                      /\ idx' = idx + 1
                      /\ pending' = pending \ {toolCall.id}
                      /\ pc' = "for"
                      /\ UNCHANGED <<outcome, returnValue>>
  /\ UNCHANGED <<stepCount, batch, llmCalls, toolsSent, issued, finishReason, expectedSpec, report>>

\* executeTool rejected: unknown tool, property read of null arguments, URL that does not parse
ToolReject ==
  /\ pc = "executeTool"
  /\ CurrentCall(batch, idx).id \in pending
  /\ LET toolCall == CurrentCall(batch, idx)
         args == JSONparse(toolCall.arguments)
     IN /\ executeToolThrows(toolCall.name, args)
        /\ Catch(trace, executeToolError(toolCall.name, args))
  /\ UNCHANGED <<stepCount, finalReportReceived, messages, batch, idx, llmCalls, toolsSent,
                 issued, finishReason, expectedSpec, report>>

\* the longest list of tool calls the next reply may carry
Room ==
  LET left == IF Len(trace) >= MaxTrace THEN 0 ELSE MaxTrace - Len(trace)
  IN IF left < MaxBatch THEN left ELSE MaxBatch

runAgent ==
  \/ WhileTest
  \/ \E k \in 0..Room : \E reply \in ToolCallReplies(k) : LLMResolve(reply)
  \/ \E reply \in OtherReplies : LLMResolve(reply)
  \/ LLMReject
  \/ ForNext
  \/ \E http \in HttpOutcomes : ToolResolve(http)
  \/ ToolReject

\* main(): const report = evaluateTrace(trace, expectedSpec)
\* an evaluation whose tool-usage check pushes 'final_report' onto spec.requiredTools
EvaluateTraceMutatingSpec ==
  /\ pc = "returned"
  /\ returnValue.kind = "value"
  /\ IF evaluateTraceThrows(returnValue.value, expectedSpec)
     THEN /\ pc' = "evaluateThrew"
          /\ UNCHANGED report
     ELSE /\ pc' = "evaluated"
          /\ report' = evaluateTrace(returnValue.value, expectedSpec)
  /\ expectedSpec' = [expectedSpec EXCEPT !.requiredTools = Append(@, "final_report")]
  /\ UNCHANGED <<stepCount, finalReportReceived, trace, messages, batch, idx, pending,
                 llmCalls, toolsSent, issued, finishReason, outcome, returnValue>>

EvaluateTrace ==
  /\ pc = "returned"
  /\ returnValue.kind = "value"
  /\ IF evaluateTraceThrows(returnValue.value, expectedSpec)
     THEN /\ pc' = "evaluateThrew"
          /\ UNCHANGED report
     ELSE /\ pc' = "evaluated"
          /\ report' = evaluateTrace(returnValue.value, expectedSpec)
  /\ UNCHANGED <<stepCount, finalReportReceived, trace, messages, batch, idx, pending,
                 llmCalls, toolsSent, issued, finishReason, outcome, returnValue, expectedSpec>>

Next == runAgent \/ EvaluateTrace

Spec == Init /\ [][Next]_vars

(***************************************************************************)
(* evaluateTrace on its own: any trace and any spec, as a caller other     *)
(* than main() may supply them.                                            *)
(***************************************************************************)
StepShape(action, args, result) == [action |-> action, args |-> args, result |-> result]

EvalStepShapes ==
  { StepShape("generateTestIds", EmptyObject, [kind |-> "ids", ids |-> generateTestIds]),
    StepShape("callApi", CallApiArgs("GET", UrlUsers1), ApiResult(200, UserBody, TRUE)),
    StepShape("callApi", CallApiArgs("GET", UrlUsers1), ApiResult(200, UserBodyExtra, FALSE)),
    StepShape("callApi", CallApiArgs("GET", UrlUsers999), ApiResult(404, ErrorBody, TRUE)),
    StepShape("callApi", CallApiArgs("GET", UrlUsers999), ApiResult(200, UserBody, TRUE)),
    StepShape("callApi", CallApiArgs("", UrlUsers1), ApiResult(200, UserBody, TRUE)),
    StepShape("callApi", CallApiArgs("GET", UrlHealth), ApiResult(0, ErrorBody, FALSE)),
    StepShape("callApi", CallApiArgs("GET", UrlUsersNeg1), ApiResult(404, ErrorBody, TRUE)),
    StepShape("callApi", CallApiArgs("GET", UrlUsers999Posts), ApiResult(404, BadErrorBody, FALSE)),
    StepShape("validateSchema", ValidateSchemaArgs(UserBody, "user"),
              validateSchema(UserBody, "user")),
    StepShape("final_report", FinalReportArgs(1, 1, 0), FinalReportArgs(1, 1, 0)),
    StepShape("final_report", FinalReportArgs(2, 1, 1), FinalReportArgs(2, 1, 1)),
    StepShape("final_report", JSNull, JSNull),
    StepShape("error", EmptyObject,
              [kind |-> "error", error |-> ErrorInfo("Error: Azure OpenAI", "runLLM")]) }

\* the trace whose i-th step has the i-th shape of f
EvalTrace(f) ==
  [i \in 1..Len(f) |-> TraceStep(i, SyntheticMessage, f[i].action, f[i].args, f[i].result)]

WorkflowSpec(requiredTools, invalidTestIds, mustHaveFinalReport) ==
  [requiredTools |-> requiredTools, invalidTestIds |-> invalidTestIds,
   mustHaveFinalReport |-> mustHaveFinalReport]

EvalSpecs ==
  { MainSpec,
    WorkflowSpec(<<"callApi">>, {1}, FALSE),
    WorkflowSpec(<<>>, {}, TRUE),
    WorkflowSpec(<<>>, {999}, FALSE),
    WorkflowSpec(<<"generateTestIds", "callApi", "validateSchema">>, {-1, 999}, FALSE) }

InitEval ==
  /\ pc = "returned"
  /\ stepCount = 0
  /\ finalReportReceived = FALSE
  /\ \E k \in 0..MaxEvalLen : \E f \in [1..k -> EvalStepShapes] : trace = EvalTrace(f)
  /\ messages = <<SystemMessage, UserMessage>>
  /\ batch = <<>>
  /\ idx = 1
  /\ pending = {}
  /\ llmCalls = 0
  /\ toolsSent = <<>>
  /\ issued = <<>>
  /\ finishReason = ""
  /\ outcome = ""
  /\ returnValue = Returned(trace)
  /\ expectedSpec \in EvalSpecs
  /\ report = NoReport

NextEval == EvaluateTrace

SpecEval == InitEval /\ [][NextEval]_vars

(***************************************************************************)
(* evaluateTrace on the traces of the documented scenarios and their       *)
(* variants: the steps of a complete run (ids, a valid user, a missing     *)
(* user, the report), the same steps gone wrong, and longer traces.        *)
(***************************************************************************)
ScenarioShapes ==
  { StepShape("generateTestIds", EmptyObject, [kind |-> "ids", ids |-> generateTestIds]),
    StepShape("callApi", CallApiArgs("GET", UrlUsers1), ApiResult(200, UserBody, TRUE)),
    StepShape("callApi", CallApiArgs("GET", UrlUsers1), ApiResult(200, UserBodyExtra, FALSE)),
    StepShape("callApi", CallApiArgs("GET", UrlUsers999), ApiResult(404, ErrorBody, TRUE)),
    StepShape("callApi", CallApiArgs("GET", UrlUsers999), ApiResult(404, BadErrorBody, FALSE)),
    StepShape("final_report", FinalReportArgs(2, 1, 1), FinalReportArgs(2, 1, 1)),
    StepShape("final_report", FinalReportArgs(3, 1, 1), FinalReportArgs(3, 1, 1)) }

ScenarioSpecs == {MainSpec, WorkflowSpec(<<"callApi">>, {999}, FALSE)}

InitScenario ==
  /\ pc = "returned"
  /\ stepCount = 0
  /\ finalReportReceived = FALSE
  /\ \E k \in 0..MaxScenarioLen : \E f \in [1..k -> ScenarioShapes] : trace = EvalTrace(f)
  /\ messages = <<SystemMessage, UserMessage>>
  /\ batch = <<>>
  /\ idx = 1
  /\ pending = {}
  /\ llmCalls = 0
  /\ toolsSent = <<>>
  /\ issued = <<>>
  /\ finishReason = ""
  /\ outcome = ""
  /\ returnValue = Returned(trace)
  /\ expectedSpec \in ScenarioSpecs
  /\ report = NoReport

NextScenario == EvaluateTrace

SpecScenario == InitScenario /\ [][NextScenario]_vars

(***************************************************************************)
(* SpecApi: one callApi tool call of the first turn, for every method and  *)
(* URL the model may supply and every response the endpoint may give:      *)
(* the three statuses with well-formed bodies of each shape, a body that   *)
(* is not JSON, and a request that fails on the network.                   *)
(***************************************************************************)
ApiMethods == {"GET", "POST", "DELETE"}
ApiUrls == {UrlUsers1, UrlUsers999, UrlUsersNeg1, UrlHealth, UrlUsersMe, UrlRelative}
JsonBodies ==
  {UserBody, UserBodyExtra, UserBodyNoEmail, UserBodyStringId,
   ErrorBody, BadErrorBody, ErrorBodyExtra, BodyScalar}
ApiHttpOutcomes ==
  {HttpOk(s, b) : s \in {200, 404}, b \in JsonBodies}
    \cup {HttpOk(500, b) : b \in {UserBody, ErrorBodyExtra, BodyScalar}}
    \cup {HttpOk(s, BodyNotJson) : s \in {200, 404, 500}}
    \cup {[net |-> "error"]}

InitApi ==
  \E method \in ApiMethods : \E url \in ApiUrls :
    LET reqs == <<Request("callApi", RawArguments(TRUE, CallApiArgs(method, url)))>>
    IN /\ pc = "executeTool"
       /\ stepCount = 1
       /\ finalReportReceived = FALSE
       /\ trace = <<>>
       /\ messages = <<SystemMessage, UserMessage,
                       AssistantMessage(1, Reply("tool_calls", TRUE, reqs))>>
       /\ batch = WithIds(1, reqs)
       /\ idx = 1
       /\ pending = {<<1, 1>>}
       /\ llmCalls = 1
       /\ toolsSent = <<getToolDefinitions>>
       /\ issued = <<"callApi">>
       /\ finishReason = "tool_calls"
       /\ outcome = ""
       /\ returnValue = NoValue
       /\ expectedSpec = MainSpec
       /\ report = NoReport

NextApi == (\E http \in ApiHttpOutcomes : ToolResolve(http)) \/ ToolReject

SpecApi == InitApi /\ [][NextApi]_vars

(***************************************************************************)
(* Properties.                                                             *)
(***************************************************************************)
Done == pc \in {"returned", "evaluated", "evaluateThrew"}

HasAction(tr, a) == \E i \in 1..Len(tr) : tr[i].action = a

ActionsOf(tr) == [i \in 1..Len(tr) |-> tr[i].action]

NamesOf(calls) == [i \in 1..Len(calls) |-> calls[i].name]

\* the tool steps recorded in turn n
TurnSteps(tr, n) == SelectSeq(tr, LAMBDA st : st.step = n /\ st.action # "error")

ToolSteps(tr) == SelectSeq(tr, LAMBDA st : st.action # "error")

IsPrefix(a, b) == Len(a) <= Len(b) /\ a = SubSeq(b, 1, Len(a))

LastOf(seq) == seq[Len(seq)]

\* C1 (as stated): once final_report is recorded the model is never called again, and
\* every tool call of that turn's batch is executed and recorded before the run ends.
C1_Original ==
  HasAction(trace, "final_report") =>
    /\ pc # "runLLM"
    /\ Done => ActionsOf(TurnSteps(trace, stepCount)) = NamesOf(batch)

\* C1 (amended): once final_report is recorded the model is never called again, and the
\* tool calls of that turn's batch go on being executed and recorded in order until the
\* batch ends or a failure records an error step and ends the run.
C1_Amended ==
  HasAction(trace, "final_report") =>
    /\ pc # "runLLM"
    /\ Done =>
         LET recorded == ActionsOf(TurnSteps(trace, stepCount))
         IN /\ IsPrefix(recorded, NamesOf(batch))
            /\ recorded = NamesOf(batch) \/ LastOf(trace).action = "error"

\* C1 witness: a finished run whose trace holds a tool step of the same turn after final_report
C1_Witness ==
  /\ Done
  /\ \E i \in 1..Len(trace) :
       /\ i < Len(trace)
       /\ trace[i].action = "final_report"
       /\ trace[i + 1].step = trace[i].step
       /\ trace[i + 1].action = "callApi"

\* the number of steps the run can still take, at most: whole turns left, then the
\* position inside the turn (one parse and one execution per tool call left)
TurnLength == 2 * MaxBatch + 3

Variant ==
  LET turn == (MaxSteps - stepCount) * TurnLength
  IN CASE pc = "runLLM" -> turn + 2 * MaxBatch + 5
       [] pc = "for" -> turn + 4 + 2 * (Len(batch) + 1 - idx)
       [] pc = "executeTool" -> turn + 3 + 2 * (Len(batch) + 1 - idx)
       [] pc = "while" -> turn + 3
       [] pc = "returned" -> 1
       [] OTHER -> 0

\* C2: the run makes at most maxSteps model calls and always terminates (every step
\* strictly decreases a natural-number variant, and a run that has not ended can always
\* take a step once its awaited call settles); it ends because final_report was
\* received, because of an early stop, or because the step ceiling was reached.
C2_Terminates ==
  /\ [](llmCalls <= MaxSteps /\ llmCalls = stepCount)
  /\ [](Variant \in Nat)
  /\ [][Variant' < Variant]_vars
  /\ [](Done \/ ENABLED runAgent)
  /\ [](Done =>
          \/ outcome = "completed" /\ finalReportReceived
          \/ outcome \in {"no_final_report", "unexpected_finish_reason", "execution_error"}
          \/ outcome = "max_steps_exceeded" /\ stepCount = MaxSteps /\ ~finalReportReceived)

\* C2 witness: a run ended by the step ceiling after maxSteps model calls
C2_Witness == Done /\ outcome = "max_steps_exceeded" /\ llmCalls = MaxSteps

\* a failure is about to be raised: arguments that do not parse, or a tool that throws
FailureAhead ==
  \/ /\ pc = "for"
     /\ idx <= Len(batch)
     /\ JSONparseThrows(batch[idx].arguments)
  \/ /\ pc = "executeTool"
     /\ executeToolThrows(batch[idx].name, JSONparse(batch[idx].arguments))

\* C3: a failure appends exactly one error step, carrying the description, after the steps
\* already recorded and ends the run: no further tool runs, the model is not called again;
\* so an error step is always the last step of the trace and the only one.
C3_ErrorEndsRun ==
  /\ [](\A i \in 1..Len(trace) :
          trace[i].action = "error" =>
            /\ i = Len(trace)
            /\ trace[i].result.kind = "error"
            /\ Done
            /\ pending = {}
            /\ outcome = "execution_error")
  /\ [][FailureAhead =>
          /\ Len(trace') = Len(trace) + 1
          /\ SubSeq(trace', 1, Len(trace)) = trace
          /\ LastOf(trace').action = "error"
          /\ outcome' = "execution_error"]_vars
  /\ [][outcome = "execution_error" =>
          UNCHANGED <<trace, messages, llmCalls, toolsSent, pending, stepCount, idx>>]_vars

\* C3 witness: a run aborted in the middle of a batch, after a recorded step
C3_Witness ==
  /\ Done
  /\ outcome = "execution_error"
  /\ Len(trace) >= 2
  /\ LastOf(trace).action = "error"
  /\ idx < Len(batch)

\* C4 (as stated): the i-th recorded step has step = i.
C4_Original == \A i \in 1..Len(trace) : trace[i].step = i

\* C4 (amended): the step fields are non-decreasing along the trace and lie between 1 and
\* the number of model calls made; a tool step carries the number of the model turn whose
\* reply requested it (the steps of one batch share it, an empty batch leaves a gap).
C4_Amended ==
  \A i \in 1..Len(trace) :
    /\ 1 <= trace[i].step
    /\ trace[i].step <= llmCalls
    /\ i < Len(trace) => trace[i].step <= trace[i + 1].step
    /\ trace[i].action # "error" => trace[i].step = trace[i].llmMessage.id

\* C4 witness: two tool steps of one batch carrying the same step value
C4_Witness ==
  /\ Len(trace) >= 2
  /\ trace[1].step = trace[2].step
  /\ trace[2].action # "error"

\* C5: at most one awaited call is outstanding (a model call or a single tool call), the
\* tool steps of the trace are the requested tool names in the order requested, and a
\* model call is sent only when every tool call requested so far has been recorded.
C5_Sequential ==
  /\ Cardinality(pending) <= 1
  /\ (pc = "runLLM") = (pending = {"runLLM"})
  /\ pc = "executeTool" => pending = {batch[idx].id}
  /\ pc # "executeTool" /\ pc # "runLLM" => pending = {}
  /\ IsPrefix(ActionsOf(ToolSteps(trace)), issued)
  /\ pc = "runLLM" => ActionsOf(ToolSteps(trace)) = issued

\* C5 witness: two different tools of one batch recorded in order, the next model call in flight
C5_Witness ==
  /\ pc = "runLLM"
  /\ Len(trace) >= 2
  /\ trace[1].step = trace[2].step
  /\ trace[1].action # trace[2].action

\* C6: a reply with finish reason stop ends the run at once: nothing is executed, no step
\* is recorded for that turn, no tool message follows the reply, no further model call.
C6_StopEndsRun ==
  finishReason = "stop" =>
    /\ Done
    /\ outcome = "no_final_report"
    /\ ~finalReportReceived
    /\ pending = {}
    /\ llmCalls = stepCount
    /\ \A i \in 1..Len(trace) : trace[i].step # stepCount
    /\ LastOf(messages).role = "assistant"

\* C6 witness: a stop reply that carried tool calls, after an earlier turn recorded a step
C6_Witness ==
  /\ finishReason = "stop"
  /\ Len(trace) >= 1
  /\ LastOf(messages).role = "assistant"
  /\ LastOf(messages).nToolCalls = 1

\* C7: tools run only under finish reason tool_calls; any reason other than tool_calls
\* and stop ends the run with nothing executed or recorded, tool calls carried or not.
C7_ToolsOnlyOnToolCalls ==
  /\ pc \in {"for", "executeTool"} => finishReason = "tool_calls"
  /\ \A i \in 1..Len(trace) :
       trace[i].step = stepCount /\ trace[i].action # "error" => finishReason = "tool_calls"
  /\ finishReason \notin {"", "tool_calls", "stop"} =>
       /\ Done
       /\ outcome = "unexpected_finish_reason"
       /\ pending = {}
       /\ \A i \in 1..Len(trace) : trace[i].step # stepCount
       /\ LastOf(messages).role = "assistant"

\* C7 witness: a reply with finish reason length that carried a tool call
C7_Witness ==
  /\ finishReason = "length"
  /\ Done
  /\ Len(trace) >= 1
  /\ LastOf(messages).role = "assistant"
  /\ LastOf(messages).nToolCalls = 1

Outcomes ==
  {"completed", "no_final_report", "unexpected_finish_reason", "execution_error",
   "max_steps_exceeded"}

\* C8: however the run ends, runAgent returns (never throws) and what it returns is
\* exactly the steps recorded up to that point.
C8_ReturnsTrace ==
  /\ Done => returnValue = Returned(trace) /\ outcome \in Outcomes
  /\ ~Done => returnValue = NoValue /\ outcome = ""

\* C8 witness: a run aborted by a failure of the first model call returns the one error step
C8_Witness ==
  /\ Done
  /\ outcome = "execution_error"
  /\ Len(trace) = 1
  /\ returnValue = Returned(trace)

\* C9 (as stated): evaluateTrace returns a report, and does not throw, for every trace
\* runAgent can return.
C9_EvaluateNeverThrows == pc # "evaluateThrew"

ScoreInRange(x) == RatLeq(Rat(0, 1), x) /\ RatLeq(x, Rat(100, 1))

\* C10: each of the five scores lies in [0, 100], and the overall score lies in [0, 100]
\* and is their unweighted mean.
C10_OverallIsMean ==
  pc = "evaluated" =>
    LET sc == report.summary.scores
        sum == RatAdd(RatAdd(RatAdd(RatAdd(sc.stepAccuracy, sc.toolAccuracy),
                                    sc.schemaPassRate), sc.failureHandling),
                      sc.finalCorrectness)
    IN /\ ScoreInRange(sc.stepAccuracy)
       /\ ScoreInRange(sc.toolAccuracy)
       /\ ScoreInRange(sc.schemaPassRate)
       /\ ScoreInRange(sc.failureHandling)
       /\ ScoreInRange(sc.finalCorrectness)
       /\ ScoreInRange(sc.overallScore)
       /\ RatEq(Rat(sc.overallScore.num * 5, sc.overallScore.den), sum)

\* C10 witness: a report whose tool accuracy is a proper fraction (one step in three unknown)
C10_Witness ==
  /\ pc = "evaluated"
  /\ Len(trace) = 3
  /\ RatEq(report.summary.scores.toolAccuracy, Rat(200, 3))
  /\ RatEq(report.summary.scores.finalCorrectness, Rat(100, 1))

\* the positions of the trace whose step satisfies a condition
Positions(tr, Cond(_)) == {i \in 1..Len(tr) : Cond(tr[i])}

IsCallApi(step) == step.action = "callApi"

BoolToNat(b) == IF b THEN 1 ELSE 0

Blurred(st) ==
  IF st.action = "final_report" THEN st
  ELSE IF st.action = "callApi"
  THEN TraceStep(st.step, st.llmMessage, "callApi", CallApiArgs("", <<>>),
                 ApiResult(st.result.status, BadErrorBody, ~st.result.schemaValid))
  ELSE TraceStep(st.step, st.llmMessage, "deleteUser", EmptyObject, st.result)

BlurredTrace(tr) == [i \in 1..Len(tr) |-> Blurred(tr[i])]

\* C12: in every report the completion flag equals the Final-report check's verdict, and
\* it is the flag of the report obtained under another spec for the trace whose steps
\* keep only what the Final-report check reads.
C12_CompletionFlag ==
  pc = "evaluated" =>
    /\ report.summary.agentCompleted = report.details.finalReport.passed
    /\ \A spec \in EvalSpecs :
         evaluateTrace(BlurredTrace(trace), spec).summary.agentCompleted
           = report.summary.agentCompleted

\* C12 witness: the flag is set although the workflow and failure-handling checks fail
C12_Witness ==
  /\ pc = "evaluated"
  /\ report.summary.agentCompleted
  /\ ~report.details.workflow.passed
  /\ ~report.details.errorHandling.passed
  /\ Len(trace) = 2

\* every required tool is the action of some step, and so is final_report when required
WorkflowCovered(tr, spec) ==
  /\ \A k \in 1..Len(spec.requiredTools) :
       Positions(tr, LAMBDA st : st.action = spec.requiredTools[k]) # {}
  /\ spec.mustHaveFinalReport => Positions(tr, LAMBDA st : st.action = "final_report") # {}

\* C13 (as stated): the Workflow check passes iff every required tool appears among the
\* step actions and, when required, a final_report step exists; stepAccuracy is 100 when
\* it passes and 50 otherwise.
C13_Original ==
  pc = "evaluated" =>
    /\ report.details.workflow.passed = WorkflowCovered(trace, expectedSpec)
    /\ report.summary.scores.stepAccuracy =
         IF report.details.workflow.passed THEN Rat(100, 1) ELSE Rat(50, 1)

\* C13 (amended): the Workflow check passes iff the trace is not empty, every required
\* tool appears among the step actions and, when required, a final_report step exists;
\* stepAccuracy is 100 when it passes and 50 otherwise.
C13_Amended ==
  pc = "evaluated" =>
    /\ report.details.workflow.passed =
         (Len(trace) > 0 /\ WorkflowCovered(trace, expectedSpec))
    /\ report.summary.scores.stepAccuracy =
         IF report.details.workflow.passed THEN Rat(100, 1) ELSE Rat(50, 1)

\* C13 witness: the empty trace fails the check of a spec that requires nothing
C13_Witness ==
  /\ pc = "evaluated"
  /\ trace = <<>>
  /\ WorkflowCovered(trace, expectedSpec)
  /\ ~report.details.workflow.passed
  /\ report.summary.scores.stepAccuracy = Rat(50, 1)

\* requiredTools with final_report, as a set
AllowedActions(spec) ==
  {spec.requiredTools[k] : k \in 1..Len(spec.requiredTools)} \cup {"final_report"}

\* C14: the Tool-usage check passes iff every step's action is a required tool or
\* final_report and every callApi step has a non-empty method and a non-empty url;
\* toolAccuracy is the share of steps with such an action, times 100 (0 for no steps).
C14_ToolUsageCheck ==
  pc = "evaluated" =>
    LET allowed == Positions(trace, LAMBDA st : st.action \in AllowedActions(expectedSpec))
        incomplete == Positions(trace, LAMBDA st :
                        IsCallApi(st) /\ (st.args.method = "" \/ st.args.url = <<>>))
    IN /\ report.details.toolUsage.passed =
            (allowed = 1..Len(trace) /\ incomplete = {})
       /\ IF Len(trace) = 0
          THEN report.summary.scores.toolAccuracy = Rat(0, 1)
          ELSE RatEq(report.summary.scores.toolAccuracy,
                     Rat(Cardinality(allowed) * 100, Len(trace)))

\* C14 witness: a callApi step without method fails the check while the accuracy is 100
C14_Witness ==
  /\ pc = "evaluated"
  /\ Len(trace) = 2
  /\ trace[2].action = "final_report"
  /\ ~report.details.toolUsage.passed
  /\ RatEq(report.summary.scores.toolAccuracy, Rat(100, 1))

\* C15: the Schema-validation check passes iff the trace has a callApi step and every
\* callApi step has result.schemaValid; schemaPassRate is the share of callApi steps with
\* schemaValid, times 100, and 0 when the trace has no callApi step.
C15_SchemaCheck ==
  pc = "evaluated" =>
    LET calls == Positions(trace, IsCallApi)
        valid == Positions(trace, LAMBDA st : IsCallApi(st) /\ st.result.schemaValid)
    IN /\ report.details.schemaValidation.passed = (calls # {} /\ valid = calls)
       /\ IF calls = {}
          THEN report.summary.scores.schemaPassRate = Rat(0, 1)
          ELSE RatEq(report.summary.scores.schemaPassRate,
                     Rat(Cardinality(valid) * 100, Cardinality(calls)))

\* C15 witness: two callApi steps, one with an invalid schema, and a step of another tool
C15_Witness ==
  /\ pc = "evaluated"
  /\ Len(trace) = 3
  /\ trace[1].action = "generateTestIds"
  /\ ~report.details.schemaValidation.passed
  /\ RatEq(report.summary.scores.schemaPassRate, Rat(50, 1))

\* a callApi step whose URL yields an id of spec.invalidTestIds
IsErrorTest(step, spec) ==
  /\ IsCallApi(step)
  /\ UrlId(step.args.url) # <<>>
  /\ UrlId(step.args.url)[1] \in spec.invalidTestIds

\* C16: the Failure-handling check passes iff some callApi step has a URL id in
\* spec.invalidTestIds and every such step has status 404 and schemaValid; the score is
\* the share of such steps with status 404 and schemaValid, times 100 (0 when there is
\* none); dropping all the other steps changes neither the check's result nor the score.
C16_FailureHandlingCheck ==
  pc = "evaluated" =>
    LET tests == Positions(trace, LAMBDA st : IsErrorTest(st, expectedSpec))
        handled == Positions(trace, LAMBDA st :
                     /\ IsErrorTest(st, expectedSpec)
                     /\ st.result.status = 404
                     /\ st.result.schemaValid)
        others == SelectSeq(trace, LAMBDA st : IsErrorTest(st, expectedSpec))
        alone == evaluateTrace(others, expectedSpec)
    IN /\ report.details.errorHandling.passed = (tests # {} /\ handled = tests)
       /\ Len(report.details.errorHandling.errors) = Cardinality(tests \ handled)
       /\ IF tests = {}
          THEN report.summary.scores.failureHandling = Rat(0, 1)
          ELSE RatEq(report.summary.scores.failureHandling,
                     Rat(Cardinality(handled) * 100, Cardinality(tests)))
       /\ alone.details.errorHandling = report.details.errorHandling
       /\ alone.summary.scores.failureHandling = report.summary.scores.failureHandling

\* C16 witness: one invalid id handled, one not, and a call for an id outside the list
C16_Witness ==
  /\ pc = "evaluated"
  /\ Len(trace) = 3
  /\ \E i \in 1..3 : IsCallApi(trace[i]) /\ ~IsErrorTest(trace[i], expectedSpec)
  /\ ~report.details.errorHandling.passed
  /\ RatEq(report.summary.scores.failureHandling, Rat(50, 1))

\* C17 (as stated): the failureHandling score is 0 exactly when no step's URL resolves
\* to an id of spec.invalidTestIds.
C17_Original ==
  pc = "evaluated" =>
    (RatEq(report.summary.scores.failureHandling, Rat(0, 1))
       <=> Positions(trace, LAMBDA st : IsErrorTest(st, expectedSpec)) = {})

\* C17 (amended): the failureHandling score is 0 exactly when no callApi step whose URL
\* resolves to an id of spec.invalidTestIds has status 404 and a valid schema, which
\* includes the case of no step resolving to such an id.
C17_Amended ==
  pc = "evaluated" =>
    /\ RatEq(report.summary.scores.failureHandling, Rat(0, 1))
         <=> Positions(trace, LAMBDA st :
               /\ IsErrorTest(st, expectedSpec)
               /\ st.result.status = 404
               /\ st.result.schemaValid) = {}
    /\ Positions(trace, LAMBDA st : IsErrorTest(st, expectedSpec)) = {}
         => RatEq(report.summary.scores.failureHandling, Rat(0, 1))

\* C17 witness: a call for an invalid id answered 200 gives a score of 0
C17_Witness ==
  /\ pc = "evaluated"
  /\ Len(trace) = 2
  /\ IsErrorTest(trace[1], expectedSpec)
  /\ trace[1].result.status = 200
  /\ trace[2].action = "final_report"
  /\ RatEq(report.summary.scores.failureHandling, Rat(0, 1))

\* the positions of url where "/users/" is followed by an integer, signed or not
IdStarts(url) ==
  {i \in 1..Len(url) :
     /\ i + 3 <= Len(url)
     /\ url[i] = "/" /\ url[i + 1] = "users" /\ url[i + 2] = "/"
     /\ \/ url[i + 3] \in Digits
        \/ url[i + 3] = "-" /\ i + 4 <= Len(url) /\ url[i + 4] \in Digits}

\* the integer that starts after the "/users/" at position i
SignedValue(url, i) ==
  IF url[i + 3] = "-" THEN 0 - DigitRun(url, i + 4, 0) ELSE DigitRun(url, i + 3, 0)

\* "/users/" at position i is followed by an integer and by nothing else
IsTrailing(url, i) ==
  \A j \in (i + 3)..Len(url) : url[j] \in Digits \/ (j = i + 3 /\ url[j] = "-")

\* the callApi steps counted as error tests when the id must be the trailing segment
TrailingTests(tr, spec) ==
  Positions(tr, LAMBDA st :
    /\ IsCallApi(st)
    /\ \E i \in IdStarts(st.args.url) :
         IsTrailing(st.args.url, i) /\ SignedValue(st.args.url, i) \in spec.invalidTestIds)

\* the callApi steps counted as error tests when the id is the first integer after "/users/"
FirstMatchTests(tr, spec) ==
  Positions(tr, LAMBDA st :
    /\ IsCallApi(st)
    /\ IdStarts(st.args.url) # {}
    /\ LET i == CHOOSE m \in IdStarts(st.args.url) : \A n \in IdStarts(st.args.url) : m <= n
       IN SignedValue(st.args.url, i) \in spec.invalidTestIds)

\* the number of error tests the check reports to have found
TestsFound(check) ==
  IF check.message.text = "No error test cases found" THEN 0 ELSE check.message.nums[2]

\* C18 (as stated): the id is the trailing path segment after /users/ read as a signed
\* integer; a callApi step whose URL has no such trailing segment, or no url, is left
\* out of the Failure-handling check and score and has no error entry.
C18_Original ==
  pc = "evaluated" =>
    LET check == report.details.errorHandling
        tests == TrailingTests(trace, expectedSpec)
    IN /\ TestsFound(check) = Cardinality(tests)
       /\ \A k \in 1..Len(check.errors) : check.errors[k].nums[1] \in tests

\* C18 (amended): the id is the signed integer that follows the first "/users/" of the
\* URL that is followed by one (so /users/-1 yields -1), whatever comes after its digits;
\* a callApi step whose URL has no "/users/<integer>", or no url, is left out of the
\* Failure-handling check and score and has no error entry.
C18_Amended ==
  /\ UrlId(UrlUsersNeg1) = <<-1>>
  /\ UrlId(UrlUsers999) = <<999>>
  /\ UrlId(UrlUsers999Posts) = <<999>>
  /\ UrlId(UrlUsersMe) = <<>>
  /\ UrlId(UrlHealth) = <<>>
  /\ UrlId(<<>>) = <<>>
  /\ pc = "evaluated" =>
       LET check == report.details.errorHandling
           tests == FirstMatchTests(trace, expectedSpec)
           without == SelectSeq(trace, LAMBDA st :
                        ~(IsCallApi(st) /\ IdStarts(st.args.url) = {}))
       IN /\ TestsFound(check) = Cardinality(tests)
          /\ \A k \in 1..Len(check.errors) :
               /\ check.errors[k].nums[1] \in tests
               /\ check.errors[k].nums[2] \in expectedSpec.invalidTestIds
          /\ evaluateTrace(without, expectedSpec).details.errorHandling = check
          /\ evaluateTrace(without, expectedSpec).summary.scores.failureHandling
               = report.summary.scores.failureHandling

\* C18 witness: /users/999/posts is taken as id 999 and gets an error entry, next to a call
\* to /health that is left out
C18_Witness ==
  /\ pc = "evaluated"
  /\ Len(trace) = 2
  /\ trace[1].args.url = UrlHealth
  /\ trace[2].args.url = UrlUsers999Posts
  /\ 999 \in expectedSpec.invalidTestIds
  /\ Len(report.details.errorHandling.errors) = 1
  /\ report.details.errorHandling.errors[1].nums[2] = 999

\* the five check results of the report
CheckResults(rep) ==
  {rep.details.workflow, rep.details.toolUsage, rep.details.schemaValidation,
   rep.details.errorHandling, rep.details.finalReport}

\* C19 (as stated): no check throws on any trace, each returns a {passed, message,
\* errors} record, and on the empty trace each of the five checks returns passed = false
\* with a message.
C19_ChecksNeverThrow ==
  /\ pc # "evaluateThrew"
  /\ pc = "evaluated" =>
       \A check \in CheckResults(report) :
         /\ DOMAIN check = {"passed", "message", "errors"}
         /\ trace = <<>> => ~check.passed /\ check.message.text # ""

\* C20: the empty trace is evaluated without a throw, under any spec: Workflow fails
\* with 'No steps in trace', Schema validation fails with 'No API calls found', Failure
\* handling fails with 'No error test cases found', the completion flag is false, and the
\* overall score is 10, the lowest score a report can have.
C20_EmptyTrace ==
  /\ trace = <<>> => pc # "evaluateThrew"
  /\ pc = "evaluated" => RatLeq(Rat(10, 1), report.summary.scores.overallScore)
  /\ pc = "evaluated" /\ trace = <<>> =>
       /\ ~report.details.workflow.passed
       /\ report.details.workflow.message.text = "No steps in trace"
       /\ ~report.details.schemaValidation.passed
       /\ report.details.schemaValidation.message.text = "No API calls found"
       /\ report.details.schemaValidation.errors = <<>>
       /\ ~report.details.errorHandling.passed
       /\ report.details.errorHandling.message.text = "No error test cases found"
       /\ report.details.errorHandling.errors = <<>>
       /\ ~report.summary.agentCompleted
       /\ report.summary.totalSteps = 0
       /\ RatEq(report.summary.scores.overallScore, Rat(10, 1))

\* C20 witness: the report of the empty trace under the spec of main()
C20_Witness ==
  /\ pc = "evaluated"
  /\ trace = <<>>
  /\ expectedSpec = MainSpec
  /\ report.summary.scores.stepAccuracy = Rat(50, 1)
  /\ ~report.summary.agentCompleted

\* the counts a final report carries equal the counts of the trace's callApi steps
CountsMatch(rep, tr) ==
  /\ rep.totalTests = <<Cardinality(Positions(tr, IsCallApi))>>
  /\ rep.successCount =
       <<Cardinality(Positions(tr, LAMBDA st : IsCallApi(st) /\ st.result.status = 200))>>
  /\ rep.errorCount =
       <<Cardinality(Positions(tr, LAMBDA st : IsCallApi(st) /\ st.result.status = 404))>>

\* a trace that does everything the spec asks for
CompleteRun(tr, spec) ==
  /\ \A k \in 1..Len(spec.requiredTools) :
       Positions(tr, LAMBDA st : st.action = spec.requiredTools[k]) # {}
  /\ \A i \in 1..Len(tr) : tr[i].action \in AllowedActions(spec)
  /\ \A i \in Positions(tr, IsCallApi) :
       tr[i].args.method # "" /\ tr[i].args.url # <<>> /\ tr[i].result.schemaValid
  /\ Positions(tr, LAMBDA st : IsErrorTest(st, spec)) # {}
  /\ \A i \in Positions(tr, LAMBDA st : IsErrorTest(st, spec)) : tr[i].result.status = 404
  /\ Positions(tr, LAMBDA st : st.action = "final_report") # {}
  /\ \A i \in Positions(tr, LAMBDA st : st.action = "final_report") :
       CountsMatch(tr[i].result, tr)

\* Scenario A: generateTestIds, GET /users/1 -> 200, GET /users/999 -> 404, final_report{2,1,1}
ScenarioA ==
  EvalTrace(<<StepShape("generateTestIds", EmptyObject,
                        [kind |-> "ids", ids |-> generateTestIds]),
              StepShape("callApi", CallApiArgs("GET", UrlUsers1), ApiResult(200, UserBody, TRUE)),
              StepShape("callApi", CallApiArgs("GET", UrlUsers999),
                        ApiResult(404, ErrorBody, TRUE)),
              StepShape("final_report", FinalReportArgs(2, 1, 1), FinalReportArgs(2, 1, 1))>>)

\* C21: for a trace in which every required tool occurs, every action is a required tool
\* or final_report, every callApi step has method, url and a valid schema, some callApi
\* targets an invalid id and all such calls returned 404, and the final report carries
\* the actual counts, all five checks pass and the overall score is 100.
C21_CompleteRunScoresFull ==
  pc = "evaluated" /\ CompleteRun(trace, expectedSpec) =>
    /\ \A check \in CheckResults(report) : check.passed /\ check.errors = <<>>
    /\ report.summary.agentCompleted
    /\ RatEq(report.summary.scores.stepAccuracy, Rat(100, 1))
    /\ RatEq(report.summary.scores.toolAccuracy, Rat(100, 1))
    /\ RatEq(report.summary.scores.schemaPassRate, Rat(100, 1))
    /\ RatEq(report.summary.scores.failureHandling, Rat(100, 1))
    /\ RatEq(report.summary.scores.finalCorrectness, Rat(100, 1))
    /\ RatEq(report.summary.scores.overallScore, Rat(100, 1))

\* C21 witness: the report of Scenario A under the spec of main()
C21_Witness ==
  /\ pc = "evaluated"
  /\ trace = ScenarioA
  /\ expectedSpec = MainSpec
  /\ CompleteRun(trace, expectedSpec)
  /\ RatEq(report.summary.scores.overallScore, Rat(100, 1))

\* the trace with the step at position i given another action, arguments and result
WithStep(tr, i, shape) ==
  [tr EXCEPT ![i] = TraceStep(tr[i].step, tr[i].llmMessage, shape.action, shape.args,
                              shape.result)]

FinalReportPositions(tr) == Positions(tr, LAMBDA st : st.action = "final_report")

MismatchTexts ==
  {"Report totalTests doesn't match actual API calls",
   "Report successCount doesn't match actual successes",
   "Report errorCount doesn't match actual errors"}

\* C22: changing only the counts of a final_report step leaves the four other scores and
\* check records exactly as they were; when the check passed and the step is the one it
\* reads, the check then fails with count-mismatch errors and finalCorrectness is 0.
C22_ReportCountsFrame ==
  pc = "evaluated" =>
    \A i \in FinalReportPositions(trace) :
      \A shape \in {sh \in ScenarioShapes : sh.action = "final_report"} :
        shape.result # trace[i].result =>
          LET changed == evaluateTrace(WithStep(trace, i, shape), expectedSpec)
          IN /\ changed.summary.scores.stepAccuracy = report.summary.scores.stepAccuracy
             /\ changed.summary.scores.toolAccuracy = report.summary.scores.toolAccuracy
             /\ changed.summary.scores.schemaPassRate = report.summary.scores.schemaPassRate
             /\ changed.summary.scores.failureHandling = report.summary.scores.failureHandling
             /\ changed.details.workflow = report.details.workflow
             /\ changed.details.toolUsage = report.details.toolUsage
             /\ changed.details.schemaValidation = report.details.schemaValidation
             /\ changed.details.errorHandling = report.details.errorHandling
             /\ (report.details.finalReport.passed
                   /\ \A j \in FinalReportPositions(trace) : i <= j) =>
                  /\ ~changed.details.finalReport.passed
                  /\ ~changed.summary.agentCompleted
                  /\ changed.summary.scores.finalCorrectness = Rat(0, 1)
                  /\ Len(changed.details.finalReport.errors) >= 1
                  /\ \A k \in 1..Len(changed.details.finalReport.errors) :
                       changed.details.finalReport.errors[k].text \in MismatchTexts

\* C22 witness: Scenario A with totalTests 3 instead of 2: one mismatch error, score 0,
\* the four other scores at 100
C22_Witness ==
  /\ pc = "evaluated"
  /\ expectedSpec = MainSpec
  /\ trace = WithStep(ScenarioA, 4, StepShape("final_report", FinalReportArgs(3, 1, 1),
                                              FinalReportArgs(3, 1, 1)))
  /\ Len(report.details.finalReport.errors) = 1
  /\ report.details.finalReport.errors[1].nums = <<3, 2>>
  /\ report.summary.scores.finalCorrectness = Rat(0, 1)
  /\ RatEq(report.summary.scores.overallScore, Rat(80, 1))

RatSub(a, b) == Rat(a.num * b.den - b.num * a.den, a.den * b.den)

RatLess(a, b) == a.num * b.den < b.num * a.den

\* the trace with the result of the step at position i marked schema-valid
SchemaValidAt(tr, i) ==
  [tr EXCEPT ![i] = TraceStep(tr[i].step, tr[i].llmMessage, tr[i].action, tr[i].args,
                              [tr[i].result EXCEPT !.schemaValid = TRUE])]

\* C23: a callApi step with schemaValid false makes the Schema-validation check fail and
\* schemaPassRate lie below 100; against the same trace with that step schema-valid the
\* rate is lower, and when the four other scores are the same the overall score is
\* lower by exactly one fifth of the difference of the rates.
C23_InvalidSchemaCost ==
  pc = "evaluated" =>
    \A i \in Positions(trace, LAMBDA st : IsCallApi(st) /\ ~st.result.schemaValid) :
      LET mine == report.summary.scores
          other == evaluateTrace(SchemaValidAt(trace, i), expectedSpec).summary.scores
      IN /\ ~report.details.schemaValidation.passed
         /\ Len(report.details.schemaValidation.errors) >= 1
         /\ RatLess(mine.schemaPassRate, Rat(100, 1))
         /\ RatLess(mine.schemaPassRate, other.schemaPassRate)
         /\ (/\ mine.stepAccuracy = other.stepAccuracy
             /\ mine.toolAccuracy = other.toolAccuracy
             /\ RatEq(mine.failureHandling, other.failureHandling)
             /\ mine.finalCorrectness = other.finalCorrectness) =>
              /\ RatLess(mine.overallScore, other.overallScore)
              /\ RatEq(RatSub(other.overallScore, mine.overallScore),
                       RatDiv(RatSub(other.schemaPassRate, mine.schemaPassRate), 5))

\* C23 witness: Scenario A with the answer for /users/1 schema-invalid: rate 50, overall 90
C23_Witness ==
  /\ pc = "evaluated"
  /\ expectedSpec = MainSpec
  /\ trace = WithStep(ScenarioA, 2, StepShape("callApi", CallApiArgs("GET", UrlUsers1),
                                              ApiResult(200, UserBodyExtra, FALSE)))
  /\ RatEq(report.summary.scores.schemaPassRate, Rat(50, 1))
  /\ RatEq(report.summary.scores.failureHandling, Rat(100, 1))
  /\ RatEq(report.summary.scores.overallScore, Rat(90, 1))

\* the trace without the step at position i
WithoutStep(tr, i) == SubSeq(tr, 1, i - 1) \o SubSeq(tr, i + 1, Len(tr))

\* the step at position i is the only occurrence of a required tool
OnlyOccurrence(tr, i, spec) ==
  /\ \E k \in 1..Len(spec.requiredTools) : spec.requiredTools[k] = tr[i].action
  /\ Positions(tr, LAMBDA st : st.action = tr[i].action) = {i}

\* C24: when the Workflow check passes and a required tool occurs exactly once in the
\* trace, the Workflow check fails on the trace without that step.
C24_WorkflowMonotonic ==
  pc = "evaluated" /\ report.details.workflow.passed =>
    \A i \in 1..Len(trace) :
      OnlyOccurrence(trace, i, expectedSpec) =>
        LET less == evaluateTrace(WithoutStep(trace, i), expectedSpec)
        IN /\ ~less.details.workflow.passed
           /\ less.summary.scores.stepAccuracy = Rat(50, 1)
           /\ Len(less.details.workflow.errors) >= 1

\* C24 witness: a passing trace of main()'s spec with a single generateTestIds step among others
C24_Witness ==
  /\ pc = "evaluated"
  /\ expectedSpec = MainSpec
  /\ report.details.workflow.passed
  /\ Len(trace) = 4
  /\ OnlyOccurrence(trace, 1, expectedSpec)
  /\ trace[1].action = "generateTestIds"
  /\ ~OnlyOccurrence(trace, 2, expectedSpec)

\* C25 is not stated: the operators of this module are functions of their arguments, so
\* two evaluations of one trace and spec agree in any model, and the timestamp is not kept.

\* C26: the call of evaluateTrace leaves the trace and the spec as they were; the report's
\* trace is the trace that was passed in and summary.totalSteps is its length.
C26_InputsUnchanged ==
  [][pc = "returned" /\ pc' \in {"evaluated", "evaluateThrew"} =>
       /\ trace' = trace
       /\ returnValue' = returnValue
       /\ expectedSpec' = expectedSpec
       /\ pc' = "evaluated" =>
            /\ report'.trace = returnValue.value
            /\ report'.trace = trace
            /\ report'.summary.totalSteps = Len(trace)]_vars

\* C26 witness: a report over a trace of several different steps
C26_Witness ==
  /\ pc = "evaluated"
  /\ Len(trace) = 3
  /\ trace[1] # trace[2]
  /\ trace[2] # trace[3]
  /\ report.trace = trace
  /\ report.summary.totalSteps = 3
  /\ expectedSpec = MainSpec

\* C27: executing callApi never ends the run: no 'error' step of a trace records a
\* failure raised by callApi, whatever method and URL the model supplied.
C27_CallApiNeverAborts ==
  \A i \in 1..Len(trace) :
    trace[i].action = "error" =>
      ~(/\ trace[i].result.error = ErrorInfo("TypeError: Invalid URL", "callApi")
        /\ Done
        /\ outcome = "execution_error")

\* the request failed on the network, or the response body is not JSON
RequestFailed(http) == IF http.net = "error" THEN TRUE ELSE ~http.body.json

\* data is an object with a string error field
HasStringError(data) ==
  /\ data.kind = "object"
  /\ "error" \in DOMAIN data.fields
  /\ data.fields.error = "string"

\* data is an object with numeric id, string name, string email and nothing else
IsUserShape(data) ==
  /\ data.kind = "object"
  /\ DOMAIN data.fields = {"id", "name", "email"}
  /\ data.fields.id = "number"
  /\ data.fields.name = "string"
  /\ data.fields.email = "string"

\* C28 as stated: when the request fails on the network or the body is not JSON, the
\* recorded result has status 0, schemaValid false and an error, whatever the status code.
C28_Original ==
  [][\A http \in ApiHttpOutcomes :
       RequestFailed(http) /\ ToolResolve(http) =>
         LET r == LastOf(trace').result
         IN /\ r.status = 0
            /\ ~r.schemaValid
            /\ HasStringError(r.data)]_vars

\* C28 amended: when the request fails on the network the result has status 0; when the
\* body is not JSON the result keeps the response's status code; in both cases schemaValid
\* is false, the data carry an error, and the step is recorded as an ordinary callApi step.
C28_Amended ==
  [][\A http \in ApiHttpOutcomes :
       RequestFailed(http) /\ ToolResolve(http) =>
         LET r == LastOf(trace').result
         IN /\ r.status = (IF http.net = "error" THEN 0 ELSE http.statusCode)
            /\ ~r.schemaValid
            /\ HasStringError(r.data)
            /\ Len(trace') = Len(trace) + 1
            /\ LastOf(trace').action = "callApi"
            /\ pc' = "for"
            /\ outcome' = ""]_vars

\* C28 witness: a recorded callApi step whose unparsable body came with status 500
C28_Witness ==
  /\ pc = "for"
  /\ Len(trace) = 1
  /\ trace[1].action = "callApi"
  /\ trace[1].result = ApiResult(500, ErrorBody, FALSE)

\* C29: for a JSON body the returned status is the response's status code and the data are
\* the body; with status 200 schemaValid is true iff the body is an object with numeric
\* id, string name, string email and no other field; with status 404 iff it is an object
\* with a string error field; with any other status it is false.
C29_SchemaByStatus ==
  [][\A http \in ApiHttpOutcomes :
       (IF http.net = "ok" THEN http.body.json ELSE FALSE) /\ ToolResolve(http) =>
         LET r == LastOf(trace').result
         IN /\ r.status = http.statusCode
            /\ r.data = http.body
            /\ r.schemaValid =
                 (IF http.statusCode = 200 THEN IsUserShape(http.body)
                  ELSE IF http.statusCode = 404 THEN HasStringError(http.body)
                  ELSE FALSE)]_vars

\* C29 witness: a 404 whose body has a string error and a further field, judged valid
C29_Witness ==
  /\ pc = "for"
  /\ Len(trace) = 1
  /\ trace[1].action = "callApi"
  /\ trace[1].result = ApiResult(404, ErrorBodyExtra, TRUE)

\* the run stopped at a tool call whose name is not in the catalog
StoppedAtUnknownTool ==
  /\ Done
  /\ outcome = "execution_error"
  /\ Len(trace) >= 1
  /\ LastOf(trace).action = "error"
  /\ LastOf(trace).result.error.type = "Error: Unknown tool"

\* C30: a tool call whose name is not one of the four catalog tools makes executeTool fail
\* with an unknown-tool error for that name; runAgent appends one 'error' step carrying it
\* and returns; the calls after it in the batch are not executed, no tool message is added
\* and the model is not called again.
C30_UnknownToolStops ==
  /\ [][pc = "executeTool" /\ CurrentCall(batch, idx).name \notin Catalog =>
          /\ Len(trace') = Len(trace) + 1
          /\ SubSeq(trace', 1, Len(trace)) = trace
          /\ LastOf(trace').action = "error"
          /\ LastOf(trace').step = stepCount
          /\ LastOf(trace').result =
               [kind |-> "error",
                error |-> ErrorInfo("Error: Unknown tool", CurrentCall(batch, idx).name)]
          /\ pc' = "returned"
          /\ outcome' = "execution_error"
          /\ returnValue' = Returned(trace')
          /\ pending' = {}
          /\ UNCHANGED <<messages, llmCalls, toolsSent, idx, batch, stepCount>>]_vars
  /\ [](StoppedAtUnknownTool =>
          /\ idx \in 1..Len(batch)
          /\ batch[idx].name \notin Catalog
          /\ LastOf(trace).result.error.about = batch[idx].name
          /\ Len(TurnSteps(trace, stepCount)) = idx - 1
          /\ ActionsOf(TurnSteps(trace, stepCount)) =
               [i \in 1..(idx - 1) |-> batch[i].name]
          /\ llmCalls = stepCount
          /\ ~ENABLED runAgent)

\* C30 witness: the run stopped at an unknown first call of a batch of two
C30_Witness ==
  /\ StoppedAtUnknownTool
  /\ Len(batch) = 2
  /\ idx = 1
  /\ batch[1].name = "deleteUser"
  /\ batch[2].name \in Catalog
  /\ LastOf(trace).result.error = ErrorInfo("Error: Unknown tool", "deleteUser")
  /\ llmCalls = stepCount

\* names a model may ask for: the catalog's and some that are not in it
DispatchNames ==
  {getToolDefinitions[i] : i \in 1..Len(getToolDefinitions)}
    \cup {"deleteUser", "error", "GenerateTestIds", ""}

\* arguments that every catalog tool accepts
GoodArgs == [CallApiArgs("GET", UrlUsers1) EXCEPT !.expectedType = "user"]

\* C31: getToolDefinitions is the four descriptors generateTestIds, callApi,
\* validateSchema, final_report in this order; every model call of a run is sent this
\* catalog; executeTool executes each of the four names and rejects every other name.
C31_CatalogFixed ==
  /\ getToolDefinitions = <<"generateTestIds", "callApi", "validateSchema", "final_report">>
  /\ Len(toolsSent) = llmCalls
  /\ \A i \in 1..Len(toolsSent) : toolsSent[i] = getToolDefinitions
  /\ \A name \in DispatchNames :
       executeToolThrows(name, GoodArgs) =
         ~(\E i \in 1..Len(getToolDefinitions) : getToolDefinitions[i] = name)
  /\ \A name \in DispatchNames :
       executeToolThrows(name, GoodArgs) =>
         executeToolError(name, GoodArgs) = ErrorInfo("Error: Unknown tool", name)
  /\ pc = "executeTool" /\ executeToolThrows(batch[idx].name, JSONparse(batch[idx].arguments)) =>
       (executeToolError(batch[idx].name, JSONparse(batch[idx].arguments)).type
          = "Error: Unknown tool")
         = ~(\E i \in 1..Len(getToolDefinitions) : getToolDefinitions[i] = batch[idx].name)

\* C31 witness: a run that called the model MaxSteps times and executed a catalog tool
C31_Witness ==
  /\ Done
  /\ llmCalls = MaxSteps
  /\ Len(toolsSent) = MaxSteps
  /\ toolsSent[1] = toolsSent[MaxSteps]
  /\ \E i \in 1..Len(trace) : trace[i].action = "callApi"
  /\ LastOf(trace).action = "error"
  /\ LastOf(trace).result.error.type = "Error: Unknown tool"

\* the tool-role messages of a conversation, in order
ToolMessages(msgs) == SelectSeq(msgs, LAMBDA m : m.role = "tool")

\* C32: the conversation starts with the system message and the user prompt and is only
\* appended to; a tool call that executeTool completes appends one tool step to the trace
\* and one tool-role message keyed by the call's id, after the assistant message of its
\* turn; the tool-role messages are as many as the trace steps other than 'error'.
C32_History ==
  /\ [](/\ Len(messages) >= 2
        /\ messages[1] = SystemMessage
        /\ messages[2] = UserMessage
        /\ Len(ToolMessages(messages)) = Len(ToolSteps(trace))
        /\ ActionsOf(ToolSteps(trace)) =
             [k \in 1..Len(ToolMessages(messages)) |-> ToolMessages(messages)[k].name]
        /\ \A k \in 1..Len(messages) :
             messages[k].role = "tool" =>
               \E j \in 1..(k - 1) :
                 /\ messages[j].role = "assistant"
                 /\ messages[j].id = messages[k].tool_call_id[1]
                 /\ messages[k].tool_call_id[2] \in 1..messages[j].nToolCalls)
  /\ [][IsPrefix(messages, messages') /\ Len(messages') <= Len(messages) + 1]_vars
  /\ [][Len(ToolSteps(trace')) # Len(ToolSteps(trace)) =>
          /\ pc = "executeTool"
          /\ Len(ToolSteps(trace')) = Len(ToolSteps(trace)) + 1
          /\ IsPrefix(trace, trace')
          /\ trace'[Len(trace) + 1].action = batch[idx].name
          /\ messages' =
               Append(messages, [role |-> "tool", tool_call_id |-> batch[idx].id,
                                 name |-> batch[idx].name])]_vars

\* C32 witness: two tool calls of one turn were executed and answered
C32_Witness ==
  /\ Len(messages) = 5
  /\ messages[3].role = "assistant"
  /\ messages[4].role = "tool"
  /\ messages[5].role = "tool"
  /\ messages[4].tool_call_id = <<1, 1>>
  /\ messages[5].tool_call_id = <<1, 2>>
  /\ Len(ToolSteps(trace)) = 2

\* the steps that tr2 has after those of tr1
Appended(tr1, tr2) == SubSeq(tr2, Len(tr1) + 1, Len(tr2))

\* C33: every step of a run leaves the recorded steps as they are and appends at most
\* one tool step, and at most one 'error' step after it; a tool step is appended exactly
\* when executeTool completed a tool call, and it records that call.
C33_AppendOnly ==
  /\ [][/\ IsPrefix(trace, trace')
        /\ Len(ToolSteps(Appended(trace, trace'))) <= 1
        /\ Len(Appended(trace, trace')) - Len(ToolSteps(Appended(trace, trace'))) <= 1
        /\ \A k \in 1..Len(Appended(trace, trace')) :
             Appended(trace, trace')[k].action = "error" =>
               k = Len(Appended(trace, trace'))]_vars
  /\ [][(pc = "executeTool"
           /\ ~executeToolThrows(batch[idx].name, JSONparse(batch[idx].arguments)))
          = (Len(ToolSteps(trace')) = Len(ToolSteps(trace)) + 1)]_vars
  /\ [][Len(ToolSteps(trace')) = Len(ToolSteps(trace)) + 1 =>
          /\ trace'[Len(trace) + 1].action = batch[idx].name
          /\ trace'[Len(trace) + 1].args = JSONparse(batch[idx].arguments)
          /\ trace'[Len(trace) + 1].step = stepCount]_vars
  /\ [](pc \in {"for", "while"} /\ outcome = "" =>
          ActionsOf(TurnSteps(trace, stepCount)) = [k \in 1..(idx - 1) |-> batch[k].name])

\* C33 witness: an 'error' step was appended behind two recorded tool steps
C33_Witness ==
  /\ Done
  /\ Len(trace) = 3
  /\ trace[1].action # "error"
  /\ trace[2].action # "error"
  /\ trace[3].action = "error"
  /\ returnValue = Returned(trace)

\* C34: the step field of every trace step is the number of the model turn in which it
\* was recorded: a step is appended with the current turn's number, the steps recorded
\* for one assistant message carry one value, the values do not decrease along the trace
\* and lie between 1 and maxSteps.
C34_StepIsTurn ==
  /\ [](\A i \in 1..Len(trace) :
          /\ trace[i].step \in 1..MaxSteps
          /\ trace[i].step <= stepCount
          /\ \A j \in i..Len(trace) :
               /\ trace[i].step <= trace[j].step
               /\ (trace[i].action # "error" /\ trace[j].action # "error"
                     /\ trace[i].llmMessage = trace[j].llmMessage)
                    => trace[i].step = trace[j].step)
  /\ [](stepCount = llmCalls /\ stepCount <= MaxSteps)
  /\ [][\A k \in (Len(trace) + 1)..Len(trace') : trace'[k].step = stepCount]_vars

\* C34 witness: two steps of the first turn followed by a step of the second turn
C34_Witness ==
  /\ Len(trace) = 3
  /\ trace[1].step = 1
  /\ trace[2].step = 1
  /\ trace[3].step = 2
  /\ trace[3].action # "error"

\* C35: at every point of a run the final-report flag is set iff the trace holds a step
\* with action final_report; a completed run returns a trace with a final_report step.
C35_FlagIffFinalReport ==
  /\ finalReportReceived = HasAction(trace, "final_report")
  /\ outcome = "completed" => HasAction(trace, "final_report")

\* C36: the trace of a run that ended with an execution error has the 'error' step last,
\* and under every spec whose requiredTools does not name 'error' the Tool-usage check fails
\* on it with an unknown-tool error for that step and toolAccuracy is below 100; the report
\* of main()'s evaluation, when there is one, carries that check record and score.
C36_AbortedRunFlagged ==
  Done /\ outcome = "execution_error" =>
    /\ Len(trace) >= 1
    /\ LastOf(trace).action = "error"
    /\ ~validateToolUsageThrows(trace)
    /\ \A spec \in EvalSpecs :
         LET usage == validateToolUsage(trace, spec)
         IN /\ ~Includes(spec.requiredTools, "error")
            /\ ~usage.passed
            /\ \E k \in 1..Len(usage.errors) :
                 usage.errors[k] = Msg("Unknown tool", <<"error">>, <<LastOf(trace).step>>)
            /\ RatLess(calculateToolAccuracy(trace, spec), Rat(100, 1))
    /\ pc = "evaluated" =>
         /\ ~report.details.toolUsage.passed
         /\ report.details.toolUsage = validateToolUsage(trace, expectedSpec)
         /\ RatLess(report.summary.scores.toolAccuracy, Rat(100, 1))

\* C36 witness: the report of a run that recorded two tool steps and then aborted
C36_Witness ==
  /\ pc = "evaluated"
  /\ outcome = "execution_error"
  /\ Len(trace) = 3
  /\ ~report.details.toolUsage.passed
  /\ report.summary.scores.toolAccuracy = Percent(2, 3)

\* C37: in every report the Schema-validation check passes iff schemaPassRate is 100 and
\* the Failure-handling check passes iff failureHandling is 100; a check that fails has
\* a score below 100 or no step to score.
C37_FlagAgreesWithScore ==
  pc = "evaluated" =>
    /\ report.details.schemaValidation.passed
         <=> RatEq(report.summary.scores.schemaPassRate, Rat(100, 1))
    /\ report.details.errorHandling.passed
         <=> RatEq(report.summary.scores.failureHandling, Rat(100, 1))
    /\ ~report.details.schemaValidation.passed
         => RatLess(report.summary.scores.schemaPassRate, Rat(100, 1))
    /\ ~report.details.errorHandling.passed
         => RatLess(report.summary.scores.failureHandling, Rat(100, 1))

\* C37 witness: the schema check and score at 100 while failure handling is at 50
C37_Witness ==
  /\ pc = "evaluated"
  /\ report.details.schemaValidation.passed
  /\ RatEq(report.summary.scores.schemaPassRate, Rat(100, 1))
  /\ ~report.details.errorHandling.passed
  /\ RatEq(report.summary.scores.failureHandling, Rat(50, 1))

\* C38: in the report of a non-empty trace, a Tool-usage check that passed comes with a
\* toolAccuracy of 100; on the empty trace the check passes with a toolAccuracy of 0.
C38_PassedUsageIsAccurate ==
  pc = "evaluated" =>
    /\ Len(trace) > 0 /\ report.details.toolUsage.passed
         => RatEq(report.summary.scores.toolAccuracy, Rat(100, 1))
    /\ Len(trace) = 0
         => /\ report.details.toolUsage.passed
            /\ RatEq(report.summary.scores.toolAccuracy, Rat(0, 1))

\* C38 witness: a passing trace of three steps that ends with final_report
C38_Witness ==
  /\ pc = "evaluated"
  /\ Len(trace) = 3
  /\ trace[1].action = "callApi"
  /\ trace[3].action = "final_report"
  /\ report.details.toolUsage.passed
  /\ RatEq(report.summary.scores.toolAccuracy, Rat(100, 1))
  /\ Len(expectedSpec.requiredTools) = 1

\* a trace that consists of one 'error' step
SingleErrorStep(tr) == Len(tr) = 1 /\ tr[1].action = "error"

\* C39 as stated: stepAccuracy is 50 or 100, finalCorrectness is 0 or 100, the overall
\* score is at least 10, and it is 10 for the empty trace and for a single 'error' step.
C39_Original ==
  pc = "evaluated" =>
    /\ report.summary.scores.stepAccuracy \in {Rat(50, 1), Rat(100, 1)}
    /\ report.summary.scores.finalCorrectness \in {Rat(0, 1), Rat(100, 1)}
    /\ RatLeq(Rat(10, 1), report.summary.scores.overallScore)
    /\ trace = <<>> \/ SingleErrorStep(trace)
         => RatEq(report.summary.scores.overallScore, Rat(10, 1))

\* C39 amended: stepAccuracy is 50 or 100, finalCorrectness is 0 or 100, the overall
\* score is at least 10; it is 10 for the empty trace; for a single 'error' step it is 10
\* when the spec requires a tool or a final report, and 20 when the spec requires neither
\* (the Workflow check then passes), 'error' not being a required tool.
C39_Amended ==
  pc = "evaluated" =>
    /\ report.summary.scores.stepAccuracy \in {Rat(50, 1), Rat(100, 1)}
    /\ report.summary.scores.finalCorrectness \in {Rat(0, 1), Rat(100, 1)}
    /\ RatLeq(Rat(10, 1), report.summary.scores.overallScore)
    /\ trace = <<>> => RatEq(report.summary.scores.overallScore, Rat(10, 1))
    /\ SingleErrorStep(trace) /\ ~Includes(expectedSpec.requiredTools, "error") =>
         /\ report.details.workflow.passed
              = (expectedSpec.requiredTools = <<>> /\ ~expectedSpec.mustHaveFinalReport)
         /\ RatEq(report.summary.scores.toolAccuracy, Rat(0, 1))
         /\ RatEq(report.summary.scores.overallScore,
                  IF expectedSpec.requiredTools = <<>> /\ ~expectedSpec.mustHaveFinalReport
                  THEN Rat(20, 1) ELSE Rat(10, 1))

\* C39 witness: a single 'error' step under a spec that requires nothing scores 20
C39_Witness ==
  /\ pc = "evaluated"
  /\ SingleErrorStep(trace)
  /\ expectedSpec.requiredTools = <<>>
  /\ ~expectedSpec.mustHaveFinalReport
  /\ report.details.workflow.passed
  /\ RatEq(report.summary.scores.overallScore, Rat(20, 1))

\* the positions of the final_report steps that follow an earlier final_report step
LaterReportPositions(tr) ==
  {i \in FinalReportPositions(tr) : \E j \in FinalReportPositions(tr) : j < i}

\* the Final-report check record, the finalCorrectness score and the completion flag
FinalVerdict(rep) ==
  <<rep.details.finalReport, rep.summary.scores.finalCorrectness, rep.summary.agentCompleted>>

\* C40: when a trace has several final_report steps, the Final-report check record,
\* finalCorrectness and the completion flag are those of the first one: giving a later
\* final_report step other counts, or dropping it, changes none of the three.
C40_FirstReportDecides ==
  pc = "evaluated" =>
    \A i \in LaterReportPositions(trace) :
      /\ FinalVerdict(evaluateTrace(WithoutStep(trace, i), expectedSpec)) = FinalVerdict(report)
      /\ \A shape \in {sh \in ScenarioShapes : sh.action = "final_report"} :
           FinalVerdict(evaluateTrace(WithStep(trace, i, shape), expectedSpec))
             = FinalVerdict(report)

\* C40 witness: a first final_report with the right counts passes, a second with other
\* counts follows it
C40_Witness ==
  /\ pc = "evaluated"
  /\ Len(trace) = 4
  /\ trace[1].action = "callApi"
  /\ trace[2].action = "callApi"
  /\ trace[3].action = "final_report"
  /\ trace[4].action = "final_report"
  /\ trace[3].result # trace[4].result
  /\ LaterReportPositions(trace) = {4}
  /\ report.details.finalReport.passed
  /\ report.summary.agentCompleted

====
